---- MODULE Spec2Model ----
(***************************************************************************)
(* Model of the healing agent's repair loop (backend/agent):               *)
(*   clone -> test -> analyze -> (fix -> verify)* -> END                   *)
(* as wired in orchestrator.py, with the node functions of                 *)
(* nodes/{clone,test,analyze,fix,verify}_node.py and the extraction        *)
(* helpers of parsers.py.                                                  *)
(*                                                                         *)
(* Text is modelled as follows.  File paths, diagnostic codes, ids and     *)
(* fingerprints are sequences of one-character strings, so that the        *)
(* string operations of the code (replace, substring search, formatting)   *)
(* are computed and not assumed.  Free text whose content the code never   *)
(* inspects (messages, descriptions) is a token plus its length.           *)
(* The tool output is a sequence of lines; a line is either a section      *)
(* marker or one diagnostic in the format of the tool that printed it.     *)
(* A file and a provider answer are the sequence of their lines that       *)
(* matter: lines that make a tool print a diagnostic, fence lines, prose.  *)
(*                                                                         *)
(* Three specifications: Spec is the whole graph; SpecDispatch is one      *)
(* dispatch pass under every sequence of provider outcomes; SpecExtract    *)
(* is one extraction pass over every tool output of a small repository.    *)
(***************************************************************************)
EXTENDS Integers, Sequences, FiniteSets, TLC

(***************************************************************************)
(* Bounds of the model                                                     *)
(***************************************************************************)
\* highest line number a diagnostic may carry
MaxLine == 7
\* largest number of flake8 diagnostics one file has when the run starts
MaxInit == 2
\* last dispatch pass in which the provider wraps its answers in a fence
MaxFencePass == 1
\* largest number of flake8 diagnostics of s/a in the extraction inputs
MaxDiag == 2
\* how far the number of diagnostics of s/a goes beyond the cap of a pass
MaxOverCap == 2
\* last dispatch pass in which the provider answers with a batch of defects
MaxBatchPass == 1

(***************************************************************************)
(* Program constants                                                       *)
(***************************************************************************)
\* orchestrator.py: initial_state["retry_limit"]
retry_limit == 5
\* analyze_node.py: deduplicate(new_fixes)[:50]
MAX_ERRORS == 50
\* fix_node.py: call_ai_with_retry(..., max_retries=5)
max_retries == 5
\* fix_node.py: error_str[:150] in the per-file failure description
DESC_TRUNC == 150
\* fix_node.py: error_str[:200] in the exhausted-retries exception
EXC_TRUNC == 200

(***************************************************************************)
(* Generic helpers                                                         *)
(***************************************************************************)
Min(a, b) == IF a <= b THEN a ELSE b

Range(s) == {s[i] : i \in 1..Len(s)}

\* s[:n] of Python on a sequence
Take(s, n) == SubSeq(s, 1, Min(Len(s), n))

\* the elements of s at the positions of K, in the order of s: what a
\* loop over s appends when it keeps exactly the positions of K
AtPositions(s, K) ==
    [j \in 1..Cardinality(K) |->
        s[CHOOSE k \in K : Cardinality({m \in K : m <= k}) = j]]

\* the decimal rendering of a natural number, str(n)
RECURSIVE Digits(_)
Digits(n) ==
    LET d == <<"0","1","2","3","4","5","6","7","8","9">>
    IN  IF n < 10 THEN <<d[n + 1]>> ELSE Digits(n \div 10) \o <<d[(n % 10) + 1]>>

\* pat in s, for sequences of characters
Contains(s, pat) ==
    \E i \in 0..(Len(s) - Len(pat)) :
        \A k \in 1..Len(pat) : s[i + k] = pat[k]

\* str.lower() on the characters the model uses
Lower(s) ==
    [i \in 1..Len(s) |->
        IF s[i] = "T" THEN "t"
        ELSE IF s[i] = "E" THEN "e"
        ELSE IF s[i] = "S" THEN "s"
        ELSE s[i]]

(***************************************************************************)
(* The repository files of the model (paths as character sequences)        *)
(***************************************************************************)
FA == <<"s", "/", "a">>
FB == <<"s", "_", "a">>
FT == <<"t", "e", "s", "t", "_", "b">>
Files == <<FA, FB, FT>>
FileSet == Range(Files)

TypeChars(t) ==
    CASE t = "LINTING"     -> <<"L","I","N","T","I","N","G">>
      [] t = "SYNTAX"      -> <<"S","Y","N","T","A","X">>
      [] t = "LOGIC"       -> <<"L","O","G","I","C">>
      [] t = "TYPE_ERROR"  -> <<"T","Y","P","E","_","E","R","R","O","R">>
      [] t = "IMPORT"      -> <<"I","M","P","O","R","T">>
      [] t = "INDENTATION" -> <<"I","N","D","E","N","T","A","T","I","O","N">>

(***************************************************************************)
(* parsers.py                                                              *)
(***************************************************************************)
\* file.replace('/', '_')
ReplaceSlash(file) ==
    [i \in 1..Len(file) |-> IF file[i] = "/" THEN "_" ELSE file[i]]

build_fix_id(type_str, file, line) ==
    TypeChars(type_str) \o <<"_">> \o ReplaceSlash(file) \o <<"_">> \o Digits(line)

build_fix_dict(type_str, file, line, message, fix_desc) ==
    [id              |-> build_fix_id(type_str, file, line),
     type            |-> type_str,
     file            |-> file,
     line            |-> line,
     message         |-> message,
     fix_description |-> fix_desc,
     status          |-> "pending"]

\* a free text: what it says and how long it is
Text(t, n) == [text |-> t, len |-> n]

\* one line of tool output
Marker(tag) ==
    [fmt |-> "marker", file |-> <<>>, line |-> 0, code |-> <<>>, msg |-> tag]
Flake8Line(file, line, code, msg) ==
    [fmt |-> "flake8", file |-> file, line |-> line, code |-> code, msg |-> msg]
MypyLine(file, line, msg) ==
    [fmt |-> "mypy", file |-> file, line |-> line, code |-> <<>>, msg |-> msg]
PytestLine(file, test) ==
    [fmt |-> "pytest", file |-> file, line |-> 0, code |-> <<>>, msg |-> test]

IsDigit(c) == c \in {"0","1","2","3","4","5","6","7","8","9"}

\* PATTERNS['flake8']: path:line:col: ([EW]\d+) text
MatchesFlake8(l) ==
    /\ l.fmt = "flake8"
    /\ Len(l.code) >= 2
    /\ l.code[1] \in {"E", "W"}
    /\ \A i \in 2..Len(l.code) : IsDigit(l.code[i])

FLAKE8_TYPE_MAP ==
    [c \in {<<"F","4","0","1">>, <<"F","4","0","3">>, <<"F","8","1","1">>,
            <<"W","1","9","1">>, <<"W","2","9","1">>, <<"E","9">>} |->
        IF c[1] = "F" THEN "IMPORT"
        ELSE IF c[1] = "W" THEN "INDENTATION"
        ELSE "SYNTAX"]

FLAKE8_FIX_MAP ==
    [c \in {<<"F","4","0","1">>, <<"E","3","0","2">>, <<"E","5","0","1">>,
            <<"W","2","9","1">>} |->
        CASE c = <<"F","4","0","1">> -> Text("remove the import statement", 27)
          [] c = <<"E","3","0","2">> -> Text("add blank lines before function", 31)
          [] c = <<"E","5","0","1">> -> Text("shorten the line length", 23)
          [] c = <<"W","2","9","1">> -> Text("remove trailing whitespace", 26)]

\* 'indent' in message.lower(), for the messages of the model
MsgHasIndent(msg) == msg \in {"unexpected indentation"}

Flake8Type(l) ==
    IF l.code \in DOMAIN FLAKE8_TYPE_MAP THEN FLAKE8_TYPE_MAP[l.code]
    ELSE IF l.code[1] = "E" /\ l.code[2] = "9" THEN "SYNTAX"
    ELSE IF l.code[1] = "E" /\ l.code[2] = "1" /\ MsgHasIndent(l.msg)
         THEN "INDENTATION"
    ELSE "LINTING"

Flake8Desc(l) ==
    IF l.code \in DOMAIN FLAKE8_FIX_MAP THEN FLAKE8_FIX_MAP[l.code]
    ELSE Text("fix the linting issue", 21)

\* the matches of one pattern, in the order of the text
MapMatches(raw, Match(_), Build(_)) ==
    LET sel == SelectSeq(raw, Match)
    IN  [i \in 1..Len(sel) |-> Build(sel[i])]

parse_flake8(raw) ==
    LET Build(l) == build_fix_dict(Flake8Type(l), l.file, l.line, l.msg, Flake8Desc(l))
    IN  MapMatches(raw, MatchesFlake8, Build)

parse_mypy(raw) ==
    LET Match(l) == l.fmt = "mypy"
        Build(l) == build_fix_dict("TYPE_ERROR", l.file, l.line, l.msg,
                                   Text("fix the type annotation", 23))
    IN  MapMatches(raw, Match, Build)

parse_pytest(raw) ==
    LET Match(l) == l.fmt = "pytest"
        Build(l) == build_fix_dict("LOGIC", l.file, 0, l.msg,
                                   Text("fix the logic error causing test failure", 40))
    IN  MapMatches(raw, Match, Build)

\* the loop appends fix unless its id is in seen, and seen holds the ids
\* of all the fixes before it: the first fix of every id is kept
deduplicate(fixes) ==
    AtPositions(fixes,
        {k \in 1..Len(fixes) : \A m \in 1..(k - 1) : fixes[m].id # fixes[k].id})

(***************************************************************************)
(* nodes/analyze_node.py                                                   *)
(***************************************************************************)
MinOf(S) == CHOOSE x \in S : \A y \in S : x <= y
MaxOf(S) == CHOOSE x \in S : \A y \in S : x >= y

MarkerIdx(raw, tag) == {i \in 1..Len(raw) : raw[i] = Marker(tag)}

\* section(tag1, tag2): raw.split(tag1)[1], cut at tag2 when tag2 occurs in
\* it; tag2 = "" stands for the call with one argument
section(raw, tag1, tag2) ==
    IF MarkerIdx(raw, tag1) = {} THEN <<>>
    ELSE LET i     == MinOf(MarkerIdx(raw, tag1))
             later == {j \in MarkerIdx(raw, tag1) : j > i}
             e     == IF later = {} THEN Len(raw) ELSE MinOf(later) - 1
             part  == SubSeq(raw, i + 1, e)
         IN  IF tag2 # "" /\ MarkerIdx(part, tag2) # {}
             THEN SubSeq(part, 1, MinOf(MarkerIdx(part, tag2)) - 1)
             ELSE part

IsTerminal(f) == f.status \in {"fixed", "failed", "skipped"}

\* f"{f['file']}:{f['line']}:{f.get('type','')}"
Fingerprint(f) ==
    f.file \o <<":">> \o Digits(f.line) \o <<":">> \o TypeChars(f.type)

(***************************************************************************)
(* parsers.py: JavaScript, TypeScript and Go.  In a repository of one of   *)
(* these languages the paths of the model stand for files that carry the   *)
(* extension of that language, and the format of a line says which         *)
(* pattern its text matches.                                               *)
(***************************************************************************)
\* node --check: "/abs/path/file.js:line", the code, a caret and the
\* SyntaxError text
NodeSyntaxLine(file, line) ==
    [fmt |-> "node", file |-> file, line |-> line, code |-> <<>>,
     msg |-> "SyntaxError: Unexpected token"]
\* eslint --format compact: "file: line N, col M, Error - text (rule)"; a
\* parsing error has no rule
EslintLine(file, line, rule, msg) ==
    [fmt |-> "eslint", file |-> file, line |-> line, code |-> rule, msg |-> msg]
\* jest: the test header followed by a stack frame "at f (file:line:col)"
JestLine(file, line, test) ==
    [fmt |-> "jest", file |-> file, line |-> line, code |-> <<>>, msg |-> test]
\* tsc: "file(line,col): error TSnnnn: text"
TscLine(file, line, msg) ==
    [fmt |-> "tsc", file |-> file, line |-> line, code |-> <<>>, msg |-> msg]
\* go build and go vet: "./file.go:line:col: text"
GoErrorLine(tool, file, line, msg) ==
    [fmt |-> tool, file |-> file, line |-> line, code |-> <<>>, msg |-> msg]
\* go test: "--- FAIL: TestX (0.00s)" and "file.go:line: text"
GoTestLine(file, line, test) ==
    [fmt |-> "gotest", file |-> file, line |-> line, code |-> <<>>, msg |-> test]
\* gofmt -l: the path of a file that needs formatting, on a line of its own
GofmtLine(file) ==
    [fmt |-> "gofmt", file |-> file, line |-> 0, code |-> <<>>, msg |-> ""]

RuleSemi == <<"s","e","m","i">>
RuleIndent == <<"i","n","d","e","n","t">>
RuleNoVar == <<"n","o","-","v","a","r">>

ESLINT_RULE_MAP ==
    [r \in {RuleSemi, RuleIndent, RuleNoVar} |->
        CASE r = RuleSemi   -> [btype |-> "LINTING",
                                fix_desc |-> Text("add missing semicolon", 21)]
          [] r = RuleIndent -> [btype |-> "INDENTATION",
                                fix_desc |-> Text("fix indentation to consistent spaces", 36)]
          [] r = RuleNoVar  -> [btype |-> "LINTING",
                                fix_desc |-> Text("replace var with let or const", 29)]]

\* 'Parsing error' in message, for the messages of the model
MsgHasParsingError(msg) == msg \in {"Parsing error: Unexpected token"}

\* the categorisation of parse_eslint for a rule outside the map
EslintFallbackType(rule, msg) ==
    IF \/ Contains(rule, <<"i","m","p","o","r","t">>)
       \/ Contains(rule, <<"r","e","q","u","i","r","e">>)
       \/ Contains(rule, <<"m","o","d","u","l","e">>)
    THEN "IMPORT"
    ELSE IF Contains(rule, RuleIndent) THEN "INDENTATION"
    ELSE IF \/ Contains(rule, <<"s","y","n","t","a","x">>)
            \/ Contains(rule, <<"p","a","r","s","e">>)
            \/ MsgHasParsingError(msg)
    THEN "SYNTAX"
    ELSE "LINTING"

\* PATTERNS['eslint'] needs the rule in parentheses at the end of the line;
\* simple_pattern matches every line of the compact format, rule or not
parse_eslint(raw) ==
    LET WithRule(l) == l.fmt = "eslint" /\ l.code # <<>>
        Simple(l)   == l.fmt = "eslint"
        Build1(l) ==
            IF l.code \in DOMAIN ESLINT_RULE_MAP
            THEN build_fix_dict(ESLINT_RULE_MAP[l.code].btype, l.file, l.line,
                                l.msg, ESLINT_RULE_MAP[l.code].fix_desc)
            ELSE build_fix_dict(EslintFallbackType(l.code, l.msg), l.file, l.line,
                                l.msg,
                                IF EslintFallbackType(l.code, l.msg) = "SYNTAX"
                                THEN Text("fix the syntax error", 20)
                                ELSE Text("fix the rule issue", 14 + Len(l.code)))
        Build2(l) ==
            IF MsgHasParsingError(l.msg)
            THEN build_fix_dict("SYNTAX", l.file, l.line, l.msg,
                                Text("fix the syntax error", 20))
            ELSE build_fix_dict("LINTING", l.file, l.line, l.msg,
                                Text("fix the linting issue", 21))
    IN  MapMatches(raw, WithRule, Build1) \o MapMatches(raw, Simple, Build2)

\* full_path.split('/')[-1]
Basename(file) ==
    LET slashes == {i \in 1..Len(file) : file[i] = "/"}
    IN  IF slashes = {} THEN file
        ELSE SubSeq(file, MaxOf(slashes) + 1, Len(file))

\* parse_node_syntax looks for the tag =NODE_SYNTAX= in the text it is
\* given and reads from that tag to the tag =ESLINT= (or to the end)
parse_node_syntax(raw) ==
    IF MarkerIdx(raw, "=NODE_SYNTAX=") = {} THEN <<>>
    ELSE LET start == MinOf(MarkerIdx(raw, "=NODE_SYNTAX="))
             ends  == {j \in MarkerIdx(raw, "=ESLINT=") : j > start}
             sect  == SubSeq(raw, start + 1,
                             IF ends = {} THEN Len(raw) ELSE MinOf(ends) - 1)
             Match(l) == l.fmt = "node"
             Build(l) == build_fix_dict("SYNTAX", Basename(l.file), l.line, l.msg,
                                        Text("fix the syntax error", 20))
         IN  MapMatches(sect, Match, Build)

parse_jest(raw) ==
    LET Match(l) == l.fmt = "jest"
        Build(l) == build_fix_dict("LOGIC", l.file, l.line, l.msg,
                                   Text("fix the failing test", 22))
    IN  MapMatches(raw, Match, Build)

parse_tsc(raw) ==
    LET Match(l) == l.fmt = "tsc"
        Build(l) == build_fix_dict("TYPE_ERROR", l.file, l.line, l.msg,
                                   Text("fix the TypeScript type error", 29))
    IN  MapMatches(raw, Match, Build)

\* the "fast type detection" of parse_go, for the messages of the model
GoErrorType(msg) ==
    IF msg \in {"undefined: x"} THEN "IMPORT"
    ELSE IF msg \in {"syntax error: unexpected newline"} THEN "SYNTAX"
    ELSE IF msg \in {"cannot use x as type int"} THEN "TYPE_ERROR"
    ELSE "LINTING"

\* parse_go: compile and vet errors, then test failures, then the files
\* gofmt lists; the last part is read from the tag =GOFMT= in the text
\* parse_go is given to the next "=", and is skipped when the tag is absent
parse_go(raw) ==
    LET IsGoError(l) == l.fmt \in {"gobuild", "govet"}
        BuildError(l) ==
            build_fix_dict(GoErrorType(l.msg), l.file, l.line, l.msg,
                           Text("fix the error", 14 + Len(TypeChars(GoErrorType(l.msg)))))
        IsTestFail(l) == l.fmt = "gotest"
        BuildTest(l) ==
            build_fix_dict("LOGIC", l.file, l.line, l.msg,
                           Text("fix the failing test logic", 26))
        IsListed(l) == l.fmt = "gofmt"
        BuildFmt(l) ==
            build_fix_dict("INDENTATION", l.file, 0, "File needs formatting",
                           Text("run gofmt to fix formatting", 27))
        tags == MarkerIdx(raw, "=GOFMT=")
        gofmt_section ==
            IF tags = {} THEN <<>>
            ELSE LET start == MinOf(tags)
                     ends  == {j \in (start + 1)..Len(raw) : raw[j].fmt = "marker"}
                 IN  SubSeq(raw, start + 1,
                            IF ends = {} THEN Len(raw) ELSE MinOf(ends) - 1)
    IN  MapMatches(raw, IsGoError, BuildError)
        \o MapMatches(raw, IsTestFail, BuildTest)
        \o MapMatches(gofmt_section, IsListed, BuildFmt)

\* the parsers selected by the language tag
ParseByLanguage(raw, lang) ==
    IF lang = "python"
    THEN parse_flake8(section(raw, "=FLAKE8=", "=MYPY="))
         \o parse_mypy(section(raw, "=MYPY=", "=PYTEST="))
         \o parse_pytest(section(raw, "=PYTEST=", ""))
    ELSE IF lang \in {"javascript", "typescript"}
    THEN parse_node_syntax(section(raw, "=NODE_SYNTAX=", "=ESLINT="))
         \o parse_eslint(section(raw, "=ESLINT=", "=JEST="))
         \o parse_jest(section(raw, "=JEST=", "=TSCCHECK="))
         \o parse_tsc(section(raw, "=TSCCHECK=", ""))
    ELSE IF lang = "go"
    THEN parse_go(section(raw, "=GOBUILD=", "=GOVET="))
         \o parse_go(section(raw, "=GOVET=", "=GOTEST="))
         \o parse_go(section(raw, "=GOTEST=", "=GOFMT="))
         \o parse_go(section(raw, "=GOFMT=", ""))
    ELSE <<>>

\* variant: the history's fingerprints are not consulted
FilterNew_ignoreHistory(new_fixes, existing_fingerprints) == new_fixes

\* the loop that keeps the new fixes whose fingerprint was not seen
FilterNew(new_fixes, existing_fingerprints) ==
    AtPositions(new_fixes,
        {k \in 1..Len(new_fixes) :
            /\ Fingerprint(new_fixes[k]) \notin existing_fingerprints
            /\ \A m \in 1..(k - 1) :
                  Fingerprint(new_fixes[m]) # Fingerprint(new_fixes[k])})

\* variant: only repaired defects are carried over
ExistingFixes_onlyFixed(fixes) ==
    LET IsFixed(f) == f.status = "fixed" IN SelectSeq(fixes, IsFixed)

\* the part of the history analyze_errors carries over
ExistingFixes(fixes) == SelectSeq(fixes, IsTerminal)

\* variant: the list is cut before the duplicates are dropped
DedupAndCap_cutFirst(new_fixes) == deduplicate(Take(new_fixes, MAX_ERRORS))

\* deduplicate(new_fixes)[:50]
DedupAndCap(new_fixes) == Take(deduplicate(new_fixes), MAX_ERRORS)

analyze_errors(raw, lang, fixes) ==
    LET new_fixes          == DedupAndCap(ParseByLanguage(raw, lang))
        existing_fixes     == ExistingFixes(fixes)
        fingerprints       == {Fingerprint(existing_fixes[i]) : i \in 1..Len(existing_fixes)}
        filtered_new_fixes == FilterNew(new_fixes, fingerprints)
        n                  == Len(filtered_new_fixes)
    IN  [fixes        |-> existing_fixes \o filtered_new_fixes,
         errors_found |-> n,
         status       |-> IF n > 0 THEN "fixing" ELSE "verifying",
         event        |-> [agent |-> "Analyze Agent",
                           msg |-> [text |-> "new errors found", n |-> n],
                           passed |-> (n = 0)]]

(***************************************************************************)
(* nodes/fix_node.py                                                       *)
(***************************************************************************)
\* the provider configured by the environment: get_ai_client()
ApiNames == {"None", "Groq", "OpenAI"}
ApiLen(api_name) == IF api_name = "Groq" THEN 4 ELSE 6

\* One provider response: content, or an error whose text carries the
\* signals the retry code looks for and has a length.
Response(content) ==
    [ok |-> TRUE, content |-> content, signals |-> {}, len |-> 0]
Failure(signals, len) ==
    [ok |-> FALSE, content |-> [empty |-> TRUE, lines |-> <<>>],
     signals |-> signals, len |-> len]

Pow2(n) == IF n = 0 THEN 1 ELSE IF n = 1 THEN 2 ELSE IF n = 2 THEN 4
           ELSE IF n = 3 THEN 8 ELSE 16

\* variant: the last attempt is retried like the others
MayRetry_always(attempt) == TRUE

\* if attempt < max_retries - 1
MayRetry(attempt) == attempt < max_retries - 1

\* variant: the network wait does not grow
NetworkWait_constant(attempt) == 2

\* wait_time = (2 ** attempt) * 2
NetworkWait(attempt) == Pow2(attempt) * 2

\* variant: the rate-limit wait grows like the network wait
RateLimitWait_asNetwork(attempt) == Pow2(attempt) * 2

\* wait_time = (2 ** attempt) * 3
RateLimitWait(attempt) == Pow2(attempt) * 3

\* variant: the text of the empty-response exception is taken for a quota
\* error
EmptyResponseSignals_asQuota == {"quota"}

\* the signals in the text "Empty response from API": none of the
\* substrings the except branch looks for
EmptyResponseSignals == {}

\* call_ai_with_retry: script[k] is what the provider answers to call k.
\* The result says whether content was returned or an exception raised,
\* the length of the exception text, the calls made and the waits slept.
RECURSIVE RetryFrom(_, _, _, _)
RetryFrom(script, api_name, attempt, waits) ==
    IF attempt >= max_retries
    THEN [raised |-> FALSE, content |-> [empty |-> TRUE, lines |-> <<>>],
          errlen |-> 0, calls |-> attempt, waits |-> waits]
    ELSE
    LET r       == script[attempt + 1]
        \* an empty response raises Exception("Empty response from API")
        signals == IF r.ok THEN EmptyResponseSignals ELSE r.signals
        len     == IF r.ok THEN 23 ELSE r.len
        Raise(n) == [raised |-> TRUE, content |-> [empty |-> TRUE, lines |-> <<>>],
                     errlen |-> n, calls |-> attempt + 1, waits |-> waits]
        Again(w) == RetryFrom(script, api_name, attempt + 1, Append(waits, w))
    IN  IF r.ok /\ ~r.content.empty
        THEN [raised |-> FALSE, content |-> r.content, errlen |-> 0,
              calls |-> attempt + 1, waits |-> waits]
        ELSE IF "rate_limit" \in signals
        THEN IF MayRetry(attempt)
             THEN Again(RateLimitWait(attempt))
             ELSE Raise(ApiLen(api_name) + 37)
        ELSE IF "quota" \in signals
        THEN Raise(ApiLen(api_name) + 57)
        ELSE IF "auth" \in signals
        THEN Raise(ApiLen(api_name) + 30)
        ELSE IF "network" \in signals /\ MayRetry(attempt)
        THEN Again(NetworkWait(attempt))
        ELSE IF MayRetry(attempt)
        THEN Again(Pow2(attempt) + 1)
        ELSE Raise(ApiLen(api_name) + 30 + Min(len, EXC_TRUNC))

call_ai_with_retry(script, api_name) == RetryFrom(script, api_name, 0, <<>>)

Ch(str) ==
    CASE str = ".test.js"  -> <<".","t","e","s","t",".","j","s">>
      [] str = ".spec.js"  -> <<".","s","p","e","c",".","j","s">>
      [] str = ".test.ts"  -> <<".","t","e","s","t",".","t","s">>
      [] str = ".spec.ts"  -> <<".","s","p","e","c",".","t","s">>
      [] str = ".test.jsx" -> <<".","t","e","s","t",".","j","s","x">>
      [] str = ".spec.jsx" -> <<".","s","p","e","c",".","j","s","x">>
      [] str = "_test.go"  -> <<"_","t","e","s","t",".","g","o">>
      [] str = "_test.py"  -> <<"_","t","e","s","t",".","p","y">>
      [] str = "test_"     -> <<"t","e","s","t","_">>
      [] str = ".test."    -> <<".","t","e","s","t",".">>
      [] str = ".spec."    -> <<".","s","p","e","c",".">>
      [] str = "/test/"    -> <<"/","t","e","s","t","/">>
      [] str = "/tests/"   -> <<"/","t","e","s","t","s","/">>

SKIP_PATTERNS ==
    {Ch(".test.js"), Ch(".spec.js"), Ch(".test.ts"), Ch(".spec.ts"),
     Ch(".test.jsx"), Ch(".spec.jsx"), Ch("_test.go"), Ch("_test.py"),
     Ch("test_"), Ch(".test."), Ch(".spec."), Ch("/test/"), Ch("/tests/")}

\* any(pattern in fix["file"].lower() for pattern in SKIP_PATTERNS)
IsTestPath(file) == \E pattern \in SKIP_PATTERNS : Contains(Lower(file), pattern)

\* Lines of a provider answer (and so of a written file) that carry no
\* diagnostic: a fence line "```" followed by a language tag, a line of
\* code, a line of prose, and a line of white space only
FenceLine(tag) ==
    [fmt |-> "fence", file |-> <<>>, line |-> 0, code |-> tag, msg |-> "fence"]
CodeLine ==
    [fmt |-> "code", file |-> <<>>, line |-> 0, code |-> <<>>, msg |-> "code"]
ProseLine ==
    [fmt |-> "prose", file |-> <<>>, line |-> 0, code |-> <<>>, msg |-> "prose"]
BlankLine ==
    [fmt |-> "blank", file |-> <<>>, line |-> 0, code |-> <<>>, msg |-> ""]

\* the alternation (?:python|javascript|typescript|java|go|rust)
FenceLangs ==
    {<<"p","y","t","h","o","n">>,
     <<"j","a","v","a","s","c","r","i","p","t">>,
     <<"t","y","p","e","s","c","r","i","p","t">>,
     <<"j","a","v","a">>, <<"g","o">>, <<"r","u","s","t">>}

IsFence(l) == l.fmt = "fence"

\* variant: any tag opens a fence
OpensFence_anyTag(l) == IsFence(l)

\* ```(?:python|...)?\s*\n matches at a fence line whose tag is one of the
\* languages or is absent (the second pattern, ```\s*\n, is the case of
\* the absent tag)
OpensFence(l) == IsFence(l) /\ (l.code = <<>> \/ l.code \in FenceLangs)

\* if "```" in fixed_code: re.search(...(.*?)```, DOTALL).group(1) when the
\* pattern matches, else the text as it is
Unfence(lines) ==
    LET opens == {i \in 1..Len(lines) :
                    /\ OpensFence(lines[i])
                    /\ \E j \in (i + 1)..Len(lines) : IsFence(lines[j])}
    IN  IF opens = {} THEN lines
        ELSE LET i == MinOf(opens)
                 j == MinOf({k \in (i + 1)..Len(lines) : IsFence(lines[k])})
             IN  SubSeq(lines, i + 1, j - 1)

\* fixed_code.strip(), on whole lines
Strip(lines) ==
    LET solid == {i \in 1..Len(lines) : lines[i].fmt # "blank"}
    IN  IF solid = {} THEN <<>>
        ELSE SubSeq(lines, MinOf(solid), MaxOf(solid))

\* the lines apply_fixes writes for an answer
WrittenLines(lines) == Strip(Unfence(lines))

\* if fixed_code and not fixed_code.endswith('\n'): fixed_code += '\n'
\* The stripped text never ends with a newline, so the text written ends
\* with one exactly when the stripped text is not empty.
TrailingNewline(written) == written # <<>>

(***************************************************************************)
(* State of one run                                                        *)
(***************************************************************************)
VARIABLES
    pc,               \* the graph node that runs next, or "END"
    status,           \* AgentState fields, as kept by the graph
    raw_test_output,
    repo_language,
    fixes,
    errors_found,
    errors_fixed,
    retry_count,
    verify_passed,
    error_message,
    timeline,
    api_name,         \* the provider the environment configures ("None": no key)
    cloned,           \* the working tree exists at repo_path
    tree,             \* working tree: per file, its state and the diagnostics
                      \* the analysis tools print for its current content
    provider_log,     \* history: one entry per call_ai_with_retry invocation
    file_writes,      \* history: number of files written by apply_fixes
    passes,           \* history: number of apply_fixes invocations
    last_analysis,    \* history: what the last re-extraction of verify_fixes returned
    declined_files,   \* the entry's declined_files, set by execute_review_push
    committed,        \* the files push_to_branch has committed on the fix branch
    pushed,           \* the files whose commit push_to_branch has pushed
    review,           \* history: how the last call of execute_review_push ended
    stream,           \* one /api/stream generator: open or not, and its last_status
    jobs,             \* the registry of main.py when two runs are made: per job id
    runs,             \* the state of each of the two runs
    repos             \* the working trees under /tmp/repos, per job id

vars == <<pc, status, raw_test_output, repo_language, fixes, errors_found,
          errors_fixed, retry_count, verify_passed, error_message, timeline,
          api_name, cloned, tree, provider_log, file_writes, passes,
          last_analysis, declined_files, committed, pushed, review, stream,
          jobs, runs, repos>>

\* what the graph nodes leave alone: the review, the fix branch and the
\* stream of the job, and the registry of two runs
service_vars == <<declined_files, committed, pushed, review, stream,
                  jobs, runs, repos>>

\* no review was asked for, nothing is committed, a client has opened the
\* stream of the job, and the registry of two runs is not in use
InitService ==
    /\ declined_files = {}
    /\ committed = {}
    /\ pushed = {}
    /\ review = "none"
    /\ stream = [open |-> TRUE, last_status |-> "None"]
    /\ jobs = <<>>
    /\ runs = <<>>
    /\ repos = <<>>

\* the (kind, file, line) triple of a defect
Triple(f) == <<f.type, f.file, f.line>>

Event(agent, msg, iteration, passed) ==
    [agent |-> agent, msg |-> msg, iteration |-> iteration, passed |-> passed]

(***************************************************************************)
(* The analysis tools, as run by run_tests and verify_fixes                *)
(***************************************************************************)
\* flake8 on a file that holds a fence line: E999 on the file's first line
SyntaxErrorLines(t, fmt, file) ==
    IF fmt = "flake8" /\ \E i \in 1..Len(t[file].lines) : IsFence(t[file].lines[i])
    THEN <<Flake8Line(file, 1, <<"E","9","9","9">>, "SyntaxError: invalid syntax")>>
    ELSE <<>>

\* the lines of format fmt that the tools print, file after file
RECURSIVE ToolLines(_, _, _)
ToolLines(t, fmt, files) ==
    IF files = <<>> THEN <<>>
    ELSE LET IsFmt(l) == l.fmt = fmt
         IN  SelectSeq(t[Head(files)].lines, IsFmt)
             \o SyntaxErrorLines(t, fmt, Head(files))
             \o ToolLines(t, fmt, Tail(files))

\* a line no pattern matches ("flake8 not available or failed: ...")
NoiseLine == [fmt |-> "text", file |-> <<>>, line |-> 0, code |-> <<>>,
              msg |-> "not available or failed"]

\* run_tests, language python; without a working tree every tool fails
RunTestsOutput(t, has_tree) ==
    IF has_tree
    THEN <<Marker("=FLAKE8=")>> \o ToolLines(t, "flake8", Files)
         \o <<Marker("=MYPY=")>> \o ToolLines(t, "mypy", Files)
         \o <<Marker("=PYTEST=")>> \o ToolLines(t, "pytest", Files)
    ELSE <<Marker("=FLAKE8="), NoiseLine, Marker("=MYPY="), NoiseLine,
           Marker("=PYTEST="), NoiseLine>>

\* run_tests, languages javascript and typescript
JsTestsOutput(t, has_tree) ==
    IF has_tree
    THEN <<Marker("=NODE_SYNTAX=")>>
         \o (IF ToolLines(t, "node", Files) = <<>> THEN <<NoiseLine>>
             ELSE ToolLines(t, "node", Files))
         \o <<Marker("=ESLINT=")>> \o ToolLines(t, "eslint", Files)
         \o <<Marker("=JEST=")>> \o ToolLines(t, "jest", Files)
         \o <<Marker("=TSCCHECK=")>> \o ToolLines(t, "tsc", Files)
    ELSE <<Marker("=NODE_SYNTAX="), NoiseLine, Marker("=ESLINT="), NoiseLine,
           Marker("=JEST="), NoiseLine, Marker("=TSCCHECK="), NoiseLine>>

\* run_tests, language go; the list of gofmt follows the line "Files need
\* formatting:"
GoTestsOutput(t, has_tree) ==
    IF has_tree
    THEN <<Marker("=GOBUILD=")>> \o ToolLines(t, "gobuild", Files)
         \o <<Marker("=GOVET=")>> \o ToolLines(t, "govet", Files)
         \o <<Marker("=GOTEST=")>> \o ToolLines(t, "gotest", Files)
         \o <<Marker("=GOFMT="), NoiseLine>> \o ToolLines(t, "gofmt", Files)
    ELSE <<Marker("=GOBUILD="), NoiseLine, Marker("=GOVET="), NoiseLine,
           Marker("=GOTEST="), NoiseLine, Marker("=GOFMT="), NoiseLine>>

\* run_tests: the output for the detected language
RunTestsFor(lang, t, has_tree) ==
    IF lang = "python" THEN RunTestsOutput(t, has_tree)
    ELSE IF lang \in {"javascript", "typescript"} THEN JsTestsOutput(t, has_tree)
    ELSE GoTestsOutput(t, has_tree)

\* verify_fixes, languages javascript and typescript: eslint only
JsVerifyOutput(t, has_tree) ==
    <<Marker("=ESLINT=")>>
    \o (IF has_tree THEN ToolLines(t, "eslint", Files) ELSE <<>>)

\* verify_fixes, language go: go build, go vet and go test
GoVerifyOutput(t, has_tree) ==
    IF has_tree
    THEN <<Marker("=GOBUILD=")>> \o ToolLines(t, "gobuild", Files)
         \o <<Marker("=GOVET=")>> \o ToolLines(t, "govet", Files)
         \o <<Marker("=GOTEST=")>> \o ToolLines(t, "gotest", Files)
    ELSE <<Marker("=GOBUILD="), Marker("=GOVET="), Marker("=GOTEST=")>>

\* verify_fixes, language python; a tool that fails adds nothing
VerifyOutput(t, has_tree) ==
    IF has_tree
    THEN <<Marker("=FLAKE8=")>> \o ToolLines(t, "flake8", Files)
         \o <<Marker("=MYPY=")>> \o ToolLines(t, "mypy", Files)
         \o <<Marker("=PYTEST=")>> \o ToolLines(t, "pytest", Files)
    ELSE <<Marker("=FLAKE8="), Marker("=MYPY="), Marker("=PYTEST=")>>

\* verify_fixes: the output of the re-run for the language of the state
VerifyFor(lang, t, has_tree) ==
    IF lang = "python" THEN VerifyOutput(t, has_tree)
    ELSE IF lang \in {"javascript", "typescript"} THEN JsVerifyOutput(t, has_tree)
    ELSE GoVerifyOutput(t, has_tree)

(***************************************************************************)
(* apply_fixes                                                             *)
(***************************************************************************)
\* variant: every defect that was not skipped counts as open work
IsPending_notSkipped(f) == f.status # "skipped"

\* if fix["status"] == "pending"
IsPending(f) == f.status = "pending"

\* variant: the defects of test files are left as they are
SkipTestFiles_unmarked(fs) == fs

\* the first loop: test files are skipped, the others grouped by file
SkipTestFiles(fs) ==
    [i \in 1..Len(fs) |->
        IF IsPending(fs[i]) /\ IsTestPath(fs[i].file)
        THEN [fs[i] EXCEPT !.status = "skipped",
                           !.fix_description = Text("Test file - skipped", 19)]
        ELSE fs[i]]

\* variant: the files of skipped defects are grouped as well
FilesMapKeys_withTestFiles(fs) ==
    LET Grouped(i) == fs[i].status \in {"pending", "skipped"}
        K == {i \in 1..Len(fs) :
                /\ Grouped(i)
                /\ \A m \in 1..(i - 1) : ~(Grouped(m) /\ fs[m].file = fs[i].file)}
        first == AtPositions(fs, K)
    IN  [j \in 1..Len(first) |-> first[j].file]

\* the keys of files_map, in insertion order
FilesMapKeys(fs) ==
    LET Grouped(i) == IsPending(fs[i]) /\ ~IsTestPath(fs[i].file)
        K == {i \in 1..Len(fs) :
                /\ Grouped(i)
                /\ \A m \in 1..(i - 1) : ~(Grouped(m) /\ fs[m].file = fs[i].file)}
        first == AtPositions(fs, K)
    IN  [j \in 1..Len(first) |-> first[j].file]

\* variant: only the first defect of a file is grouped under it
FileErrors_firstOnly(grouped, file) ==
    LET all == {i \in 1..Len(grouped) : IsPending(grouped[i]) /\ grouped[i].file = file}
    IN  {i \in all : \A j \in all : i <= j}

\* files_map[file]: the positions of its grouped defects
FileErrors(grouped, file) ==
    {i \in 1..Len(grouped) : IsPending(grouped[i]) /\ grouped[i].file = file}

\* fix["status"] = ...; fix["fix_description"] = ... for every fix in file_errors
MarkAll(fs, idx, st, desc(_)) ==
    [i \in 1..Len(fs) |->
        IF i \in idx
        THEN [fs[i] EXCEPT !.status = st, !.fix_description = desc(fs[i])]
        ELSE fs[i]]

\* variant: the error text is kept whole
FailureDescLen_untruncated(api, errlen) == ApiLen(api) + 2 + errlen

\* len(f"{api_name}: {error_str[:150]}")
FailureDescLen(api, errlen) == ApiLen(api) + 2 + Min(errlen, DESC_TRUNC)

\* variant: the path is taken to exist without looking
FileExists_unchecked(t, file) == TRUE

\* os.path.exists(file_path)
FileExists(t, file) == t[file].state # "missing"

\* the body of "for file_name, file_errors in files_map.items()" for one file
ProcessFile(acc, grouped, file, script, api, passno) ==
    LET idx == FileErrors(grouped, file)
        NotFound(f) == Text("File not found", 14)
        \* f"Cannot read file: {str(read_err)}", with an error text of 30 characters
        CannotRead(f) == Text("Cannot read file", 48)
    IN  IF ~FileExists(acc.tree, file)
        THEN [acc EXCEPT !.fixes = MarkAll(acc.fixes, idx, "failed", NotFound)]
        ELSE IF acc.tree[file].state = "unreadable"
        THEN [acc EXCEPT !.fixes = MarkAll(acc.fixes, idx, "failed", CannotRead)]
        ELSE
        LET r == call_ai_with_retry(script, api)
            \* "if not fixed_code: raise Exception('AI returned empty response')"
            failed == r.raised \/ r.content.empty
            errlen == IF r.raised THEN r.errlen ELSE 26
            entry == [pass |-> passno, file |-> file,
                      errors |-> {Triple(grouped[i]) : i \in idx},
                      ok |-> ~failed, calls |-> r.calls, waits |-> r.waits,
                      content |-> r.content.lines, script |-> script]
            ApiError(f) == Text("provider error", FailureDescLen(api, errlen))
            Corrected(f) == Text("AI corrected issue", ApiLen(api) + 20 + Len(TypeChars(f.type)))
        IN  IF failed
            THEN [acc EXCEPT !.fixes = MarkAll(acc.fixes, idx, "failed", ApiError),
                             !.log = Append(acc.log, entry)]
            ELSE [acc EXCEPT !.fixes = MarkAll(acc.fixes, idx, "fixed", Corrected),
                             !.tree = [acc.tree EXCEPT
                                         ![file].lines = WrittenLines(r.content.lines)],
                             !.log = Append(acc.log, entry),
                             !.writes = acc.writes + 1,
                             !.errors_fixed = acc.errors_fixed + Cardinality(idx),
                             !.files_fixed = acc.files_fixed + 1]

\* variant: the returned list holds the defects of this pass only
updated_fixes_withoutHistory(before, after) ==
    LET K == {i \in 1..Len(after) : before[i].status = "pending"}
    IN  AtPositions(after, K)

\* updated_fixes = state["fixes"].copy(): the list of the state, whose
\* entries are the dicts the loops have marked
updated_fixes(before, after) == after

RECURSIVE ProcessFiles(_, _, _, _, _, _)
ProcessFiles(acc, grouped, keys, plan, api, passno) ==
    IF keys = <<>> THEN acc
    ELSE ProcessFiles(ProcessFile(acc, grouped, Head(keys), plan[Head(keys)], api, passno),
                      grouped, Tail(keys), plan, api, passno)

\* apply_fixes: plan[file] is the provider's behaviour for that file's call.
\* The result carries the returned state update and the effects on the
\* working tree and on the provider.
apply_fixes(fs, t, api, plan, passno, log, writes) ==
    IF api = "None"
    THEN [fixes |-> fs, errors_fixed |-> 0, status |-> "failed",
          error_message |-> "No API key configured",
          events |-> <<>>, tree |-> t, log |-> log, writes |-> writes]
    ELSE
    LET grouped == SkipTestFiles(fs)
        acc0 == [fixes |-> grouped, tree |-> t, log |-> log, writes |-> writes,
                 errors_fixed |-> 0, files_fixed |-> 0]
        acc  == ProcessFiles(acc0, grouped, FilesMapKeys(grouped), plan, api, passno)
        ok   == acc.errors_fixed > 0
    IN  [fixes |-> updated_fixes(fs, acc.fixes), errors_fixed |-> acc.errors_fixed,
         status |-> IF ok THEN "verifying" ELSE "failed",
         error_message |-> IF ok THEN "" ELSE "All fixes failed",
         events |-> <<[agent |-> "Fix Agent",
                       msg |-> [text |-> IF ok THEN "Applied fixes" ELSE "All fixes failed",
                                n |-> acc.errors_fixed],
                       passed |-> ok]>>,
         tree |-> acc.tree, log |-> acc.log, writes |-> acc.writes]

(***************************************************************************)
(* The environment of a run: the repository and the patch provider         *)
(***************************************************************************)
\* n flake8 diagnostics (line too long) on the lines first, first + 1, ...
\* of a file
Flake8Lines(file, first, n) ==
    [k \in 1..n |->
        Flake8Line(file, first + k - 1, <<"E","5","0","1">>, "line too long")]

InitTrees ==
    {[f \in FileSet |->
        IF f = FA THEN [state |-> "ok", lines |-> Flake8Lines(FA, 1, na)]
        ELSE IF f = FB THEN [state |-> sb, lines |-> Flake8Lines(FB, 2, nb)]
        ELSE [state |-> "ok",
              lines |-> IF nt = 1 THEN <<PytestLine(FT, "test_x")>> ELSE <<>>]] :
     na \in 0..MaxInit, nb \in 0..1, sb \in {"ok", "missing", "unreadable"},
     nt \in 0..1}

\* the lowest line of a file that no diagnostic has used so far
NextLine(file) ==
    1 + MaxOf({0} \cup {fixes[i].line : i \in {j \in 1..Len(fixes) : fixes[j].file = file}}
                  \cup {tree[file].lines[i].line : i \in 1..Len(tree[file].lines)})

\* the diagnostic a new defect in a patched file shows up as
FreshLine(file) ==
    IF file = FA
    THEN Flake8Line(FA, NextLine(FA), <<"E","5","0","1">>, "line too long")
    ELSE MypyLine(file, NextLine(file), "incompatible types")

\* the file bodies the provider may answer with: a clean file, the file as
\* it was (the tools report what they reported before), or the file as it
\* was with one more defect, on a line not reported before
NewContents(file) ==
    {[empty |-> FALSE, lines |-> <<>>],
     [empty |-> FALSE, lines |-> tree[file].lines]}
    \cup (IF NextLine(file) <= MaxLine
          THEN {[empty |-> FALSE, lines |-> Append(tree[file].lines, FreshLine(file))]}
          ELSE {})

\* answers that wrap a corrected file in a code fence: with the tag
\* "python" between two lines of prose, and with the tag "py"
FencedContents ==
    IF passes >= MaxFencePass THEN {} ELSE
    {[empty |-> FALSE,
      lines |-> <<ProseLine, FenceLine(<<"p","y","t","h","o","n">>), CodeLine,
                  FenceLine(<<>>), ProseLine>>],
     [empty |-> FALSE,
      lines |-> <<FenceLine(<<"p","y">>), CodeLine, FenceLine(<<>>)>>]}

Repeat(r) == [k \in 1..max_retries |-> r]

\* the provider behaviours for the call of one file: content (plain or
\* fenced) at the first call, a rate-limit error and then content, a quota error (60 characters),
\* or five errors without a recognised signal (400 characters each)
Scripts(file) ==
    {Repeat(Response(c)) : c \in NewContents(file) \cup FencedContents}
    \cup {[k \in 1..max_retries |->
            IF k = 1 THEN Failure({"rate_limit"}, 60)
            ELSE Response([empty |-> FALSE, lines |-> <<>>])]}
    \cup {Repeat(Failure({"quota"}, 60)), Repeat(Failure({}, 400))}

\* files that are not asked about get no behaviour
PlansFor(file) ==
    IF file \in Range(FilesMapKeys(SkipTestFiles(fixes))) THEN Scripts(file) ELSE {<<>>}

(***************************************************************************)
(* The graph of orchestrator.py: one action per node, with its routing     *)
(***************************************************************************)
Init ==
    /\ pc = "clone"
    /\ status = "cloning"
    /\ raw_test_output = <<>>
    /\ repo_language = "unknown"
    /\ fixes = <<>>
    /\ errors_found = 0
    /\ errors_fixed = 0
    /\ retry_count = 0
    /\ verify_passed = FALSE
    /\ error_message = ""
    /\ timeline = <<>>
    /\ api_name \in ApiNames
    /\ cloned = FALSE
    /\ tree \in InitTrees
    /\ provider_log = <<>>
    /\ file_writes = 0
    /\ passes = 0
    /\ last_analysis = <<>>
    /\ InitService

\* clone_repo, then the edge clone -> test
clone_repo ==
    /\ pc = "clone"
    /\ \E ok \in BOOLEAN :
        /\ cloned' = ok
        /\ IF ok
           THEN /\ status' = "testing"
                /\ timeline' = Append(timeline,
                        Event("Clone Agent", [text |-> "Cloned", n |-> 0], 0, TRUE))
                /\ UNCHANGED error_message
           ELSE /\ status' = "failed"
                /\ error_message' = "clone failed"
                /\ UNCHANGED timeline
    /\ pc' = "test"
    /\ UNCHANGED <<raw_test_output, repo_language, fixes, errors_found,
                   errors_fixed, retry_count, verify_passed, api_name, tree,
                   provider_log, file_writes, passes, last_analysis>>
    /\ UNCHANGED service_vars

\* detect_language: no file of the model has a known extension
detect_language == "python"

\* run_tests, then the edge test -> analyze
run_tests ==
    /\ pc = "test"
    /\ raw_test_output' = RunTestsFor(detect_language, tree, cloned)
    /\ repo_language' = detect_language
    /\ status' = "analyzing"
    /\ timeline' = Append(timeline,
            Event("Test Agent", [text |-> "Ran tests", n |-> 0], retry_count, TRUE))
    /\ pc' = "analyze"
    /\ UNCHANGED <<fixes, errors_found, errors_fixed, retry_count, verify_passed,
                   error_message, api_name, cloned, tree, provider_log,
                   file_writes, passes, last_analysis>>
    /\ UNCHANGED service_vars

\* variant: the clean case is not told apart
route_after_analyze_alwaysFix(found) == "fix"

route_after_analyze(found) == IF found = 0 THEN "verify" ELSE "fix"

\* the analyze node, then route_after_analyze
AnalyzeNode ==
    /\ pc = "analyze"
    /\ \E a \in {analyze_errors(raw_test_output, repo_language, fixes)} :
           /\ fixes' = a.fixes
           /\ errors_found' = a.errors_found
           /\ status' = a.status
           /\ timeline' = Append(timeline,
                   Event(a.event.agent, a.event.msg, retry_count, a.event.passed))
           /\ pc' = route_after_analyze(a.errors_found)
    /\ UNCHANGED <<raw_test_output, repo_language, errors_fixed, retry_count,
                   verify_passed, error_message, api_name, cloned, tree,
                   provider_log, file_writes, passes, last_analysis>>
    /\ UNCHANGED service_vars

\* variant: the run goes on to verification whatever the fix node returns
route_after_fix_alwaysVerify(st) == "verify"

route_after_fix(st) ==
    IF st = "failed" THEN "END"
    ELSE IF st = "quota_reached" \/ st = "awaiting_review" THEN "END"
    ELSE "verify"

\* the fix node, then route_after_fix; the provider's behaviour for the
\* calls of the three files is drawn from SA, SB and ST
FixWith(SA, SB, ST) ==
    /\ pc = "fix"
    /\ \E pa \in SA, pb \in SB, pt \in ST :
        \E r \in {apply_fixes(fixes, tree, api_name,
                    [f \in FileSet |-> IF f = FA THEN pa ELSE IF f = FB THEN pb ELSE pt],
                    passes + 1, provider_log, file_writes)} :
            /\ fixes' = r.fixes
            /\ errors_fixed' = r.errors_fixed
            /\ status' = r.status
            /\ error_message' = r.error_message
            /\ timeline' = timeline \o
                   [i \in 1..Len(r.events) |->
                       Event(r.events[i].agent, r.events[i].msg, retry_count,
                             r.events[i].passed)]
            /\ tree' = r.tree
            /\ provider_log' = r.log
            /\ file_writes' = r.writes
            /\ pc' = route_after_fix(r.status)
    /\ passes' = passes + 1
    /\ UNCHANGED <<raw_test_output, repo_language, errors_found, retry_count,
                   verify_passed, api_name, cloned, last_analysis>>
    /\ UNCHANGED service_vars

FixNode == FixWith(PlansFor(FA), PlansFor(FB), PlansFor(FT))

route_after_verify(st) == IF st = "fixing" THEN "fix" ELSE "END"

\* variant: every verification passes
VerifyPassed_always(remaining) == TRUE

\* passed = len(remaining) == 0
VerifyPassed(remaining) == Len(remaining) = 0

\* variant: the budget test is off by one
RetryAllowed_offByOne(count) == count <= retry_limit

\* elif state["retry_count"] < state["retry_limit"]
RetryAllowed(count) == count < retry_limit

\* variant: the counter is stepped twice
NextRetryCount_double(count) == count + 2

\* "retry_count": state["retry_count"] + 1
NextRetryCount(count) == count + 1

\* verify_fixes: the state update it returns
verify_fixes(found, fs, count, t, has_tree, lang) ==
    IF found = 0
    THEN [verify_passed |-> TRUE, status |-> "pushing", fixes |-> fs,
          errors_found |-> found, retry_count |-> count, analysed |-> FALSE,
          remaining |-> <<>>,
          event |-> Event("Verify Agent", [text |-> "already clean", n |-> 0], 0, TRUE)]
    ELSE
    LET analysis  == analyze_errors(VerifyFor(lang, t, has_tree), lang, fs)
        remaining == analysis.fixes
        passed    == VerifyPassed(remaining)
        event     == Event("Verify Agent",
                           [text |-> IF passed THEN "All errors fixed"
                                     ELSE "errors remaining",
                            n |-> Len(remaining)],
                           count, passed)
    IN  IF passed
        THEN [verify_passed |-> TRUE, status |-> "pushing", fixes |-> fs,
              errors_found |-> found, retry_count |-> count, analysed |-> TRUE,
              remaining |-> remaining, event |-> event]
        ELSE IF RetryAllowed(count)
        THEN [verify_passed |-> FALSE, status |-> "fixing", fixes |-> remaining,
              errors_found |-> Len(remaining), retry_count |-> NextRetryCount(count),
              analysed |-> TRUE, remaining |-> remaining, event |-> event]
        ELSE [verify_passed |-> FALSE, status |-> "pushing", fixes |-> fs,
              errors_found |-> found, retry_count |-> count, analysed |-> TRUE,
              remaining |-> remaining, event |-> event]

\* the verify node, then route_after_verify
VerifyNode ==
    /\ pc = "verify"
    /\ \E v \in {verify_fixes(errors_found, fixes, retry_count, tree, cloned,
                                repo_language)} :
           /\ verify_passed' = v.verify_passed
           /\ status' = v.status
           /\ fixes' = v.fixes
           /\ errors_found' = v.errors_found
           /\ retry_count' = v.retry_count
           /\ timeline' = Append(timeline, v.event)
           /\ last_analysis' = IF v.analysed THEN v.remaining ELSE last_analysis
           /\ pc' = route_after_verify(v.status)
    /\ UNCHANGED <<raw_test_output, repo_language, errors_fixed, error_message,
                   api_name, cloned, tree, provider_log, file_writes, passes>>
    /\ UNCHANGED service_vars

Next == clone_repo \/ run_tests \/ AnalyzeNode \/ FixNode \/ VerifyNode

Spec == Init /\ [][Next]_vars

(***************************************************************************)
(* One dispatch pass under every provider behaviour: the run has found one *)
(* flake8 diagnostic in s/a, and the provider answers each of the up to    *)
(* five attempts for that file in any of the ways of Outcomes.             *)
(***************************************************************************)
\* what one attempt can come back with: a corrected file, an empty answer,
\* an error without a recognised signal (400 characters), and errors whose
\* text carries a rate-limit, quota, authentication or network signal; the
\* last is a quota error delivered with HTTP status 429
Outcomes ==
    {Response([empty |-> FALSE, lines |-> <<>>]),
     Response([empty |-> TRUE, lines |-> <<>>]),
     Failure({}, 400),
     Failure({"rate_limit"}, 60),
     Failure({"quota"}, 60),
     Failure({"auth"}, 60),
     Failure({"network"}, 60),
     Failure({"rate_limit", "quota"}, 60)}

AllScripts == [1..max_retries -> Outcomes]

\* the run state when the fix node is entered for the first time
InitDispatch ==
    LET t0 == [f \in FileSet |->
                 [state |-> "ok",
                  lines |-> IF f = FA THEN Flake8Lines(FA, 1, 1) ELSE <<>>]]
        a  == analyze_errors(RunTestsOutput(t0, TRUE), "python", <<>>)
    IN  /\ pc = "fix"
        /\ status = a.status
        /\ raw_test_output = RunTestsOutput(t0, TRUE)
        /\ repo_language = "python"
        /\ fixes = a.fixes
        /\ errors_found = a.errors_found
        /\ errors_fixed = 0
        /\ retry_count = 0
        /\ verify_passed = FALSE
        /\ error_message = ""
        /\ timeline = <<Event("Clone Agent", [text |-> "Cloned", n |-> 0], 0, TRUE),
                        Event("Test Agent", [text |-> "Ran tests", n |-> 0], 0, TRUE),
                        Event(a.event.agent, a.event.msg, 0, a.event.passed)>>
        /\ api_name = "OpenAI"
        /\ cloned = TRUE
        /\ tree = t0
        /\ provider_log = <<>>
        /\ file_writes = 0
        /\ passes = 0
        /\ last_analysis = <<>>
        /\ InitService

DispatchAny == FixWith(AllScripts, {<<>>}, {<<>>})

SpecDispatch == InitDispatch /\ [][DispatchAny]_vars

(***************************************************************************)
(* One dispatch pass under every short provider answer: the same run, and  *)
(* the provider answers the first attempt with any text of up to MaxAnswer *)
(* lines of code, prose, white space and fence lines.                      *)
(***************************************************************************)
\* the longest answer, in lines
MaxAnswer == 3

\* the sequences over S of length up to n
SeqsUpTo(S, n) == UNION {[1..k -> S] : k \in 0..n}

AnswerLines ==
    {CodeLine, ProseLine, BlankLine, FenceLine(<<>>),
     FenceLine(<<"p","y","t","h","o","n">>), FenceLine(<<"p","y">>)}

\* the empty answer is the empty string; every other answer is its lines
Answers ==
    {[empty |-> (ls = <<>>), lines |-> ls] : ls \in SeqsUpTo(AnswerLines, MaxAnswer)}

AnswerScripts == {Repeat(Response(c)) : c \in Answers}

WriteAny == FixWith(AnswerScripts, {<<>>}, {<<>>})

SpecWrite == InitDispatch /\ [][WriteAny]_vars

(***************************************************************************)
(* One extraction pass over every tool output of a small repository: the   *)
(* run has cloned and run the tools, and analyze_errors runs on the output. *)
(***************************************************************************)
\* the flake8 diagnostics s/a may have: two with kind LINTING on line 1, an
\* unused import on line 10, trailing white space and a syntax error
DiagsOfFA ==
    {Flake8Line(FA, 1, <<"E","5","0","1">>, "line too long"),
     Flake8Line(FA, 1, <<"E","3","0","2">>, "expected 2 blank lines"),
     Flake8Line(FA, 10, <<"F","4","0","1">>, "'os' imported but unused"),
     Flake8Line(FA, 2, <<"W","2","9","1">>, "trailing whitespace"),
     Flake8Line(FA, 1, <<"E","9","9","9">>, "SyntaxError: invalid syntax")}

ExtractTrees ==
    {[f \in FileSet |->
        [state |-> "ok",
         lines |-> IF f = FA THEN la ELSE IF f = FB THEN lb ELSE lt]] :
     la \in SeqsUpTo(DiagsOfFA, MaxDiag),
     lb \in {<<>>, Flake8Lines(FB, 1, 1), <<MypyLine(FB, 1, "incompatible types")>>},
     lt \in {<<>>, <<PytestLine(FT, "test_x")>>}}

\* the run state when the analyze node is entered
InitExtract ==
    /\ pc = "analyze"
    /\ status = "analyzing"
    /\ tree \in ExtractTrees
    /\ raw_test_output = RunTestsOutput(tree, TRUE)
    /\ repo_language = detect_language
    /\ fixes = <<>>
    /\ errors_found = 0
    /\ errors_fixed = 0
    /\ retry_count = 0
    /\ verify_passed = FALSE
    /\ error_message = ""
    /\ timeline = <<Event("Clone Agent", [text |-> "Cloned", n |-> 0], 0, TRUE),
                    Event("Test Agent", [text |-> "Ran tests", n |-> 0], 0, TRUE)>>
    /\ api_name = "OpenAI"
    /\ cloned = TRUE
    /\ provider_log = <<>>
    /\ file_writes = 0
    /\ passes = 0
    /\ last_analysis = <<>>
    /\ InitService

SpecExtract == InitExtract /\ [][AnalyzeNode]_vars

(***************************************************************************)
(* Runs on repositories of every supported language: the run has cloned    *)
(* and run the tools of the detected language on a repository whose file   *)
(* s/a has up to MaxDiag diagnostics, and goes on from the analyze node.   *)
(* The provider answers each request with a clean file or with the file as *)
(* it was.                                                                 *)
(***************************************************************************)
\* the values detect_language returns
Languages == {"python", "javascript", "typescript", "go"}

\* what the tools of a language may print about s/a, one diagnostic per
\* tool section (two for eslint, and a parsing error without a rule)
LangDiags(lang) ==
    IF lang = "python"
    THEN {Flake8Line(FA, 1, <<"E","5","0","1">>, "line too long"),
          MypyLine(FA, 2, "incompatible types"),
          PytestLine(FA, "test_x")}
    ELSE IF lang \in {"javascript", "typescript"}
    THEN {NodeSyntaxLine(FA, 1),
          EslintLine(FA, 2, RuleSemi, "Missing semicolon"),
          EslintLine(FA, 3, RuleIndent, "Expected indentation of 2 spaces"),
          EslintLine(FA, 1, <<>>, "Parsing error: Unexpected token"),
          JestLine(FA, 4, "suite > test x"),
          TscLine(FA, 5, "Type 'string' is not assignable to type 'number'")}
    ELSE {GoErrorLine("gobuild", FA, 1, "undefined: x"),
          GoErrorLine("govet", FA, 2, "unreachable code"),
          GoTestLine(FA, 3, "TestX"),
          GofmtLine(FA)}

LangTrees(lang) ==
    {[f \in FileSet |->
        [state |-> "ok", lines |-> IF f = FA THEN la ELSE <<>>]] :
     la \in SeqsUpTo(LangDiags(lang), MaxDiag)}

\* the run state when the analyze node is entered
InitLang ==
    /\ pc = "analyze"
    /\ status = "analyzing"
    /\ repo_language \in Languages
    /\ tree \in LangTrees(repo_language)
    /\ raw_test_output = RunTestsFor(repo_language, tree, TRUE)
    /\ fixes = <<>>
    /\ errors_found = 0
    /\ errors_fixed = 0
    /\ retry_count = 0
    /\ verify_passed = FALSE
    /\ error_message = ""
    /\ timeline = <<Event("Clone Agent", [text |-> "Cloned", n |-> 0], 0, TRUE),
                    Event("Test Agent", [text |-> "Ran tests", n |-> 0], 0, TRUE)>>
    /\ api_name = "OpenAI"
    /\ cloned = TRUE
    /\ provider_log = <<>>
    /\ file_writes = 0
    /\ passes = 0
    /\ last_analysis = <<>>
    /\ InitService

\* the provider answers with a clean file or with the file as it was
LangPlans(file) ==
    IF file \in Range(FilesMapKeys(SkipTestFiles(fixes)))
    THEN {Repeat(Response([empty |-> FALSE, lines |-> <<>>])),
          Repeat(Response([empty |-> FALSE, lines |-> tree[file].lines]))}
    ELSE {<<>>}

LangFix == FixWith(LangPlans(FA), LangPlans(FB), LangPlans(FT))

LangNext == AnalyzeNode \/ LangFix \/ VerifyNode

SpecLang == InitLang /\ [][LangNext]_vars

(***************************************************************************)
(* The job of a run in the registry of main.py.  The orchestrator updates  *)
(* the entry with the result of every node, so the fields of the run state *)
(* are the fields of the entry; execute_review_push works on the entry,    *)
(* and the generator of /api/stream polls its status.                      *)
(***************************************************************************)
\* the files of the defects with status st, in the order of the list
RECURSIVE FilesWithStatus(_, _)
FilesWithStatus(fs, st) ==
    IF fs = <<>> THEN <<>>
    ELSE LET rest == FilesWithStatus(SubSeq(fs, 1, Len(fs) - 1), st)
             f    == fs[Len(fs)]
         IN  IF f.status = st /\ f.file \notin Range(rest)
             THEN Append(rest, f.file) ELSE rest

\* variant: files the reviewer declined are left out of the commits
PushCandidates_withoutDeclined(fs, declined) ==
    LET Kept(f) == f \notin declined
    IN  SelectSeq(FilesWithStatus(fs, "fixed"), Kept)

\* fixes_by_file: the files that have a defect with status "fixed"; the
\* entry's declined_files is not read
PushCandidates(fs, declined) == FilesWithStatus(fs, "fixed")

\* the CI status logic at the end of push_to_branch
PushVerdict(found, fixed, passed) == found = 0 \/ fixed = found \/ passed

\* push_to_branch.  dirty: the files that differ from HEAD; token: a GitHub
\* token is configured; has_tree: the repository opens at repo_path
push_to_branch(fs, declined, found, fixed, passed, count, has_tree, token, dirty) ==
    LET applied == FilesWithStatus(fs, "fixed")
        failed  == FilesWithStatus(fs, "failed")
        keys    == PushCandidates(fs, declined)
        changed == SelectSeq(keys, LAMBDA f : f \in dirty)
        FileEvent(f) ==
            Event("Git Push Agent",
                  [text |-> IF token THEN "Committed and pushed fix"
                            ELSE "Failed to push",
                   n |-> Cardinality({i \in 1..Len(fs) :
                            fs[i].file = f /\ fs[i].status = "fixed"})],
                  count, token)
    IN  IF failed # <<>> /\ applied = <<>>
        THEN [status |-> "failed", error_message |-> "All fixes failed",
              verify_passed |-> passed, committed |-> {}, pushed |-> {},
              events |-> <<Event("Git Push Agent",
                                 [text |-> "Cannot push", n |-> Len(failed)],
                                 count, FALSE)>>]
        ELSE IF ~has_tree
        THEN [status |-> "failed", error_message |-> "Push failed",
              verify_passed |-> passed, committed |-> {}, pushed |-> {},
              events |-> <<Event("Git Push Agent",
                                 [text |-> "Push failed", n |-> 0],
                                 count, FALSE)>>]
        ELSE [status |-> "done", error_message |-> "",
              verify_passed |-> PushVerdict(found, fixed, passed),
              committed |-> Range(changed),
              pushed |-> IF token THEN Range(changed) ELSE {},
              events |-> [i \in 1..Len(changed) |-> FileEvent(changed[i])]]

\* execute_review_push for the job of the run, called once the graph has
\* ended: a ValueError unless the entry's status is "awaiting_review",
\* else the push with the declined files recorded in the entry
execute_review_push ==
    /\ pc = "END"
    /\ IF status # "awaiting_review"
       THEN /\ review' = "rejected"
            /\ UNCHANGED <<status, timeline, declined_files, committed, pushed,
                           verify_passed, error_message>>
       ELSE \E declined \in SUBSET FileSet, token \in BOOLEAN,
               dirty \in SUBSET Range(FilesWithStatus(fixes, "fixed")) :
            \E r \in {push_to_branch(fixes, declined, errors_found, errors_fixed,
                                     verify_passed, retry_count, cloned, token,
                                     dirty)} :
                /\ review' = "accepted"
                /\ status' = r.status
                /\ timeline' = Append(timeline,
                        Event("Review Agent",
                              [text |-> "User review complete",
                               n |-> Cardinality(declined)],
                              retry_count, TRUE)) \o r.events
                /\ declined_files' = declined
                /\ committed' = committed \cup r.committed
                /\ pushed' = pushed \cup r.pushed
                /\ verify_passed' = r.verify_passed
                /\ error_message' = IF r.status = "failed" THEN r.error_message
                                    ELSE error_message
    /\ UNCHANGED <<pc, raw_test_output, repo_language, fixes, errors_found,
                   errors_fixed, retry_count, api_name, cloned, tree,
                   provider_log, file_writes, passes, last_analysis, stream,
                   jobs, runs, repos>>

\* one round of the generator of /api/stream: it reads the status of the
\* entry, sends the entry when the status is new or terminal, and ends when
\* the status is "done" or "failed"; otherwise it sleeps and polls again
stream_poll ==
    /\ stream.open
    /\ stream' = [open |-> status \notin {"done", "failed"},
                  last_status |-> status]
    /\ UNCHANGED <<pc, status, raw_test_output, repo_language, fixes,
                   errors_found, errors_fixed, retry_count, verify_passed,
                   error_message, timeline, api_name, cloned, tree,
                   provider_log, file_writes, passes, last_analysis,
                   declined_files, committed, pushed, review,
                   jobs, runs, repos>>

\* a run with its review and its stream; the provider answers with a clean
\* file, with the file as it was, or with a quota error
ServicePlans(file) ==
    IF file \in Range(FilesMapKeys(SkipTestFiles(fixes)))
    THEN {Repeat(Response([empty |-> FALSE, lines |-> <<>>])),
          Repeat(Response([empty |-> FALSE, lines |-> tree[file].lines])),
          Repeat(Failure({"quota"}, 60))}
    ELSE {<<>>}

ServiceFix == FixWith(ServicePlans(FA), ServicePlans(FB), ServicePlans(FT))

ServiceNext ==
    \/ clone_repo \/ run_tests \/ AnalyzeNode \/ ServiceFix \/ VerifyNode
    \/ execute_review_push \/ stream_poll

SpecService == Init /\ [][ServiceNext]_vars

(***************************************************************************)
(* execute_review_push on the jobs it accepts: the entry of a run that     *)
(* found one defect in s/a and one in s_a and made one dispatch pass, with *)
(* each defect FIXED or FAILED, and with the status "awaiting_review" that *)
(* the function asks for.                                                  *)
(***************************************************************************)
InitPush ==
    LET t0 == [f \in FileSet |->
                 [state |-> "ok",
                  lines |-> IF f = FA THEN Flake8Lines(FA, 1, 1)
                            ELSE IF f = FB THEN Flake8Lines(FB, 2, 1)
                            ELSE <<>>]]
        a  == analyze_errors(RunTestsOutput(t0, TRUE), "python", <<>>)
    IN  /\ pc = "END"
        /\ status = "awaiting_review"
        /\ raw_test_output = RunTestsOutput(t0, TRUE)
        /\ repo_language = "python"
        /\ \E st \in [1..Len(a.fixes) -> {"fixed", "failed"}] :
              /\ fixes = [i \in 1..Len(a.fixes) |->
                            [a.fixes[i] EXCEPT !.status = st[i]]]
              /\ errors_fixed = Cardinality({i \in 1..Len(a.fixes) : st[i] = "fixed"})
        /\ errors_found = a.errors_found
        /\ retry_count = 0
        /\ verify_passed \in BOOLEAN
        /\ error_message = ""
        /\ timeline = <<Event("Clone Agent", [text |-> "Cloned", n |-> 0], 0, TRUE),
                        Event("Test Agent", [text |-> "Ran tests", n |-> 0], 0, TRUE),
                        Event(a.event.agent, a.event.msg, 0, a.event.passed)>>
        /\ api_name = "OpenAI"
        /\ cloned \in BOOLEAN
        /\ tree = t0
        /\ provider_log = <<>>
        /\ file_writes = errors_fixed
        /\ passes = 1
        /\ last_analysis = <<>>
        /\ InitService

SpecPush == InitPush /\ [][execute_review_push]_vars

(***************************************************************************)
(* Two runs of the service at once.  Each request of /api/run-agent gets a *)
(* job id and an entry in the registry jobs; its background task runs the  *)
(* graph on its own state and writes every node's result to the entry of   *)
(* its job id; its working tree is /tmp/repos/{job_id}.  The steps of the  *)
(* two runs interleave in every order.                                     *)
(***************************************************************************)
Runs == {1, 2}

\* the values uuid.uuid4() may return
JobIds == {"j1", "j2", "j3"}

NoJob == "none"

\* the repository both requests name: one flake8 diagnostic in s/a
TwoRunTree ==
    [f \in FileSet |->
        [state |-> "ok", lines |-> IF f = FA THEN Flake8Lines(FA, 1, 1) ELSE <<>>]]

CleanTree == [f \in FileSet |-> [state |-> "ok", lines |-> <<>>]]

\* variant: an id may be handed out twice
uuid4_notUnique(js) == JobIds

\* job_id = str(uuid.uuid4()): an id no job has
uuid4(js) == {id \in JobIds : ~js[id].present}

\* self.jobs[self.job_id].update(updated), for the keys of the model
UpdateJob(js, id, st, fs, tl) ==
    [js EXCEPT ![id] = [present |-> TRUE, status |-> st, fixes |-> fs,
                        timeline |-> tl]]

\* run r takes a step that leaves its state as rec, writes its registry
\* entry and leaves its working tree as wt
RunStep(r, rec, wt) ==
    /\ runs' = [runs EXCEPT ![r] = rec]
    /\ jobs' = UpdateJob(jobs, rec.job_id, rec.status, rec.fixes, rec.timeline)
    /\ repos' = [repos EXCEPT ![rec.job_id] = wt]

\* /api/run-agent: a new job id and the entry of the queued job
run_agent(r) ==
    /\ runs[r].pc = "new"
    /\ \E id \in uuid4(jobs) :
          /\ runs' = [runs EXCEPT ![r].pc = "queued", ![r].job_id = id,
                                  ![r].status = "queued"]
          /\ jobs' = [jobs EXCEPT ![id] = [present |-> TRUE, status |-> "queued",
                                           fixes |-> <<>>, timeline |-> <<>>]]
    /\ UNCHANGED repos

\* run_pipeline up to the first node: the status "cloning" and the initial
\* state of HealingOrchestrator.run, synced to the entry
run_pipeline(r) ==
    /\ runs[r].pc = "queued"
    /\ RunStep(r, [runs[r] EXCEPT !.pc = "clone", !.status = "cloning"],
               repos[runs[r].job_id])

\* the clone node of run r: the directory at repo_path is removed, then
\* the repository is cloned into it
clone_of(r) ==
    /\ runs[r].pc = "clone"
    /\ \E ok \in BOOLEAN :
         IF ok
         THEN RunStep(r, [runs[r] EXCEPT
                            !.pc = "test", !.status = "testing",
                            !.timeline = Append(@,
                                Event("Clone Agent", [text |-> "Cloned", n |-> 0], 0, TRUE))],
                      [exists |-> TRUE, tree |-> TwoRunTree])
         ELSE RunStep(r, [runs[r] EXCEPT !.pc = "test", !.status = "failed"],
                      [exists |-> FALSE, tree |-> CleanTree])

\* the test node of run r, on the working tree of run r
tests_of(r) ==
    /\ runs[r].pc = "test"
    /\ LET wt == repos[runs[r].job_id]
       IN  RunStep(r, [runs[r] EXCEPT
                          !.pc = "analyze", !.status = "analyzing",
                          !.repo_language = detect_language,
                          !.raw_test_output =
                              RunTestsFor(detect_language, wt.tree, wt.exists),
                          !.timeline = Append(@,
                              Event("Test Agent", [text |-> "Ran tests", n |-> 0],
                                    runs[r].retry_count, TRUE))],
                   wt)

\* the analyze node of run r
analyze_of(r) ==
    /\ runs[r].pc = "analyze"
    /\ \E a \in {analyze_errors(runs[r].raw_test_output, runs[r].repo_language,
                                runs[r].fixes)} :
         RunStep(r, [runs[r] EXCEPT
                        !.pc = route_after_analyze(a.errors_found),
                        !.status = a.status, !.fixes = a.fixes,
                        !.errors_found = a.errors_found,
                        !.timeline = Append(@,
                            Event(a.event.agent, a.event.msg, runs[r].retry_count,
                                  a.event.passed))],
                 repos[runs[r].job_id])

\* the provider answers the request for a file with a clean file or with a
\* quota error
TwoRunPlans(fs, file) ==
    IF file \in Range(FilesMapKeys(SkipTestFiles(fs)))
    THEN {Repeat(Response([empty |-> FALSE, lines |-> <<>>])),
          Repeat(Failure({"quota"}, 60))}
    ELSE {<<>>}

\* the fix node of run r: it patches files under the repo_path of run r
fix_of(r) ==
    /\ runs[r].pc = "fix"
    /\ \E pa \in TwoRunPlans(runs[r].fixes, FA), pb \in TwoRunPlans(runs[r].fixes, FB),
          pt \in TwoRunPlans(runs[r].fixes, FT) :
         \E x \in {apply_fixes(runs[r].fixes, repos[runs[r].job_id].tree, "OpenAI",
                     [f \in FileSet |-> IF f = FA THEN pa ELSE IF f = FB THEN pb ELSE pt],
                     runs[r].passes + 1, <<>>, 0)} :
            RunStep(r, [runs[r] EXCEPT
                           !.pc = route_after_fix(x.status),
                           !.status = x.status, !.fixes = x.fixes,
                           !.errors_fixed = x.errors_fixed,
                           !.passes = @ + 1,
                           !.timeline = @ \o
                               [i \in 1..Len(x.events) |->
                                   Event(x.events[i].agent, x.events[i].msg,
                                         runs[r].retry_count, x.events[i].passed)]],
                    [repos[runs[r].job_id] EXCEPT !.tree = x.tree])

\* the verify node of run r, on the working tree of run r
verify_of(r) ==
    /\ runs[r].pc = "verify"
    /\ LET wt == repos[runs[r].job_id]
       IN  \E v \in {verify_fixes(runs[r].errors_found, runs[r].fixes,
                                   runs[r].retry_count, wt.tree, wt.exists,
                                   runs[r].repo_language)} :
             RunStep(r, [runs[r] EXCEPT
                            !.pc = route_after_verify(v.status),
                            !.status = v.status, !.fixes = v.fixes,
                            !.errors_found = v.errors_found,
                            !.retry_count = v.retry_count,
                            !.verify_passed = v.verify_passed,
                            !.timeline = Append(@, v.event)],
                     wt)

\* no request has been made
InitRegistry ==
    /\ jobs = [id \in JobIds |->
                 [present |-> FALSE, status |-> "none", fixes |-> <<>>,
                  timeline |-> <<>>]]
    /\ runs = [r \in Runs |->
                 [pc |-> "new", job_id |-> NoJob, status |-> "none",
                  raw_test_output |-> <<>>, repo_language |-> "unknown",
                  fixes |-> <<>>, errors_found |-> 0, errors_fixed |-> 0,
                  retry_count |-> 0, verify_passed |-> FALSE, timeline |-> <<>>,
                  passes |-> 0]]
    /\ repos = [id \in JobIds |-> [exists |-> FALSE, tree |-> CleanTree]]

\* the variables of the single run of the other specifications stay as
\* they are
InitTwoRuns ==
    /\ pc = "END"
    /\ status = "none"
    /\ raw_test_output = <<>>
    /\ repo_language = "unknown"
    /\ fixes = <<>>
    /\ errors_found = 0
    /\ errors_fixed = 0
    /\ retry_count = 0
    /\ verify_passed = FALSE
    /\ error_message = ""
    /\ timeline = <<>>
    /\ api_name = "OpenAI"
    /\ cloned = FALSE
    /\ tree = CleanTree
    /\ provider_log = <<>>
    /\ file_writes = 0
    /\ passes = 0
    /\ last_analysis = <<>>
    /\ declined_files = {}
    /\ committed = {}
    /\ pushed = {}
    /\ review = "none"
    /\ stream = [open |-> TRUE, last_status |-> "None"]
    /\ InitRegistry

TwoRunsNext ==
    /\ \E r \in Runs :
          \/ run_agent(r) \/ run_pipeline(r) \/ clone_of(r) \/ tests_of(r)
          \/ analyze_of(r) \/ fix_of(r) \/ verify_of(r)
    /\ UNCHANGED <<pc, status, raw_test_output, repo_language, fixes,
                   errors_found, errors_fixed, retry_count, verify_passed,
                   error_message, timeline, api_name, cloned, tree,
                   provider_log, file_writes, passes, last_analysis,
                   declined_files, committed, pushed, review, stream>>

SpecTwoRuns == InitTwoRuns /\ [][TwoRunsNext]_vars

(***************************************************************************)
(* Properties                                                              *)
(***************************************************************************)
PendingCount(fs) == Cardinality({i \in 1..Len(fs) : IsPending(fs[i])})

TerminalTriples(fs) == {Triple(fs[i]) : i \in {j \in 1..Len(fs) : IsTerminal(fs[j])}}

PendingTriples(fs) == {Triple(fs[i]) : i \in {j \in 1..Len(fs) : IsPending(fs[j])}}

\* the triples the analysis tools report for the working tree as it is
ReportedTriples ==
    LET ds == ParseByLanguage(VerifyOutput(tree, cloned), "python")
    IN  {Triple(ds[i]) : i \in 1..Len(ds)}

\* C1 (as claimed): when verify_fixes runs after a dispatch pass and its
\* re-extraction contains no PENDING defect, it returns verify_passed = TRUE
\* with status "pushing" and the graph ends, so that no further dispatch
\* pass runs.
C1_FinalizeOnZeroPending ==
    [][(pc = "verify" /\ passes > 0 /\ PendingCount(last_analysis') = 0)
        => (verify_passed' /\ status' = "pushing" /\ pc' = "END")]_vars

\* the outcomes of a run that has ended
Finalized == pc = "END" /\ status = "pushing" /\ verify_passed
Abandoned == pc = "END" /\ status = "pushing" /\ ~verify_passed
RunFailed == pc = "END" /\ status = "failed" /\ ~verify_passed

\* C2 (as claimed): a run that has ended made at most retry_limit + 1
\* dispatch passes and ended in finalize or abandon, both of which leave
\* the status "pushing".
C2_OnlyFinalizeOrAbandon ==
    pc = "END" => (passes <= retry_limit + 1 /\ (Finalized \/ Abandoned))

\* the number of node executions a run can still make, at most
StepsLeft ==
    CASE pc = "clone"   -> 2 * (retry_limit + 1) + 4
      [] pc = "test"    -> 2 * (retry_limit + 1) + 3
      [] pc = "analyze" -> 2 * (retry_limit + 1) + 2
      [] pc = "verify"  -> 2 * (retry_limit + 1 - passes) + 1
      [] pc = "fix"     -> 2 * (retry_limit + 1 - passes)
      [] pc = "END"     -> 0

\* C2 (amended): the run never makes more than retry_limit + 1 dispatch
\* passes; every node execution lowers a non-negative bound on the
\* executions left, so the loop cannot go on forever; and a run that has
\* ended is in exactly one of finalize (verify_passed, status "pushing"),
\* abandon (not verify_passed, status "pushing") or failure (status
\* "failed", after a dispatch pass that fixed nothing).
C2_TerminatesInOneOutcome ==
    /\ [](passes <= retry_limit + 1 /\ StepsLeft >= 0)
    /\ [][StepsLeft' < StepsLeft]_vars
    /\ [](pc = "END" =>
            /\ Finalized \/ Abandoned \/ RunFailed
            /\ RunFailed => (passes > 0 /\ errors_fixed = 0))

\* C2 witness: a run abandoned after retry_limit + 1 dispatch passes
C2_Witness == Abandoned /\ passes = retry_limit + 1

\* C3: no list of defects produced by an extraction pass (the run's history
\* after analyze_errors, and the list verify_fixes extracts) holds a PENDING
\* defect with the (kind, file, line) of a defect that is terminal in it.
C3_NoTerminalReintroduced ==
    /\ PendingTriples(fixes) \cap TerminalTriples(fixes) = {}
    /\ PendingTriples(last_analysis) \cap TerminalTriples(last_analysis) = {}

\* C3 witness: a re-extraction has run while the tools still report a
\* defect that is terminal in the history, next to a new PENDING one
C3_Witness ==
    /\ pc = "fix" /\ retry_count > 0
    /\ TerminalTriples(fixes) \cap ReportedTriples # {}
    /\ PendingCount(fixes) > 0

\* C4: a defect that is terminal in the history stays in the history with
\* the same status over every step of the run: its triple is still there,
\* and every record with its triple has its status.
C4_TerminalIsKept ==
    [][\A i \in 1..Len(fixes) :
          IsTerminal(fixes[i]) =>
            /\ \E j \in 1..Len(fixes') : Triple(fixes'[j]) = Triple(fixes[i])
            /\ \A j \in 1..Len(fixes') :
                  Triple(fixes'[j]) = Triple(fixes[i])
                      => fixes'[j].status = fixes[i].status]_vars

StatusesOf(fs) == {fs[i].status : i \in 1..Len(fs)}

\* C4 witness: a second dispatch pass has run on a history that already
\* held a FIXED, a FAILED and a SKIPPED defect
C4_Witness ==
    /\ passes >= 2
    /\ {"fixed", "failed", "skipped"} \subseteq StatusesOf(fixes)
    /\ \E i \in 1..Len(provider_log) : provider_log[i].pass = 2

\* C5: no defect (kind, file, line) is part of the provider requests of two
\* different dispatch passes.
C5_SentInOnePassOnly ==
    \A i, j \in 1..Len(provider_log) :
        provider_log[i].pass # provider_log[j].pass
            => provider_log[i].errors \cap provider_log[j].errors = {}

\* C5 witness: the provider was asked in two passes while the tools still
\* reported a defect that an earlier pass had sent
C5_Witness ==
    \E i, j \in 1..Len(provider_log) :
        /\ provider_log[i].pass < provider_log[j].pass
        /\ provider_log[i].file = provider_log[j].file
        /\ provider_log[i].errors \cap ReportedTriples # {}

\* the provider requests made by the step, and the defects they carry
NewRequests == {provider_log'[k] : k \in (Len(provider_log) + 1)..Len(provider_log')}

\* C6: retry_count stays within 0..retry_limit; it changes only in
\* verify_fixes, and there by exactly 1; when verify_fixes extracts at least
\* one PENDING defect and retry_count < retry_limit it steps the counter and
\* returns to dispatch with status "fixing"; and a dispatch pass sends the
\* provider only defects that were PENDING when the pass began.
C6_RetryStep ==
    /\ [](retry_count \in 0..retry_limit)
    /\ [][retry_count' # retry_count
            => (pc = "verify" /\ retry_count' = retry_count + 1)]_vars
    /\ [][(pc = "verify" /\ errors_found > 0 /\ PendingCount(last_analysis') > 0
              /\ retry_count < retry_limit)
            => (retry_count' = retry_count + 1 /\ status' = "fixing"
                /\ pc' = "fix" /\ fixes' = last_analysis')]_vars
    /\ [][pc = "fix"
            => \A e \in NewRequests : e.errors \subseteq PendingTriples(fixes)]_vars

\* C6 witness: a retry pass has asked the provider about a defect that the
\* re-extraction of verify_fixes found
C6_Witness ==
    /\ retry_count > 0
    /\ \E i \in 1..Len(provider_log) : provider_log[i].pass = retry_count + 1
    /\ pc = "verify"

\* what the run state says about the defects left: errors_found, or the
\* count in the last timeline event
RecordsUnresolved(n) ==
    \/ errors_found = n
    \/ (timeline # <<>> /\ timeline[Len(timeline)].msg.n = n)

\* C7 (as claimed): when verify_fixes has run with retry_count = retry_limit
\* and extracted PENDING defects, the run has ended with status "pushing" and
\* verify_passed = FALSE, the defects fixed so far are kept, and the run
\* state records the number of unresolved (PENDING) defects.
C7_AbandonRecordsUnresolved ==
    (pc = "END" /\ retry_count = retry_limit /\ passes = retry_limit + 1
        /\ status # "failed" /\ PendingCount(last_analysis) > 0)
    => /\ status = "pushing" /\ ~verify_passed
       /\ "fixed" \in StatusesOf(fixes)
       /\ RecordsUnresolved(PendingCount(last_analysis))

\* the initial extraction reported n new defects
InitialExtractionFound(n) ==
    \E i \in 1..Len(timeline) :
        timeline[i].agent = "Analyze Agent" /\ timeline[i].msg.n = n

\* C8: after an initial extraction that found no defect there is no dispatch
\* pass, no provider call and no file write, the run is in verify or has
\* ended, and it ends with verify_passed = TRUE and status "pushing".
C8_CleanRepoSkipsDispatch ==
    InitialExtractionFound(0)
    => /\ passes = 0 /\ provider_log = <<>> /\ file_writes = 0
       /\ pc \in {"verify", "END"}
       /\ pc = "END" => (verify_passed /\ status = "pushing")

\* C8 witness: a run with a clean initial extraction has ended
C8_Witness == InitialExtractionFound(0) /\ pc = "END" /\ cloned

\* C9 (as claimed): a dispatch pass returns status "failed" exactly when it
\* had PENDING defects to work on and wrote no file.
C9_FailedIffNothingFixed ==
    [][pc = "fix"
        => (status' = "failed"
              <=> (PendingCount(fixes) > 0 /\ file_writes' = file_writes))]_vars

\* C10: in a dispatch pass with a configured provider, every defect that was
\* PENDING in a file whose provider call failed is FAILED afterwards with a
\* description of at most 6 + 2 + 150 characters; the pass returns its
\* result (the Fix Agent event) and every file with PENDING defects that is
\* not a test file and can be read has had its provider call.
C10_FileFailureIsLocal ==
    [][(pc = "fix" /\ api_name # "None")
        => /\ \A e \in NewRequests : ~e.ok =>
                \A i \in 1..Len(fixes) :
                    (IsPending(fixes[i]) /\ fixes[i].file = e.file)
                    => /\ fixes'[i].status = "failed"
                       /\ fixes'[i].fix_description.len <= 6 + 2 + DESC_TRUNC
           /\ Len(timeline') = Len(timeline) + 1
           /\ timeline'[Len(timeline')].agent = "Fix Agent"
           /\ \A i \in 1..Len(fixes) :
                (IsPending(fixes[i]) /\ ~IsTestPath(fixes[i].file)
                    /\ tree[fixes[i].file].state = "ok")
                => \E e \in NewRequests : e.file = fixes[i].file]_vars

\* C10 witness: in one pass the call for a file failed with an error text
\* that had to be cut, and the call for a later file succeeded
C10_Witness ==
    /\ \E i, j \in 1..Len(provider_log) :
        /\ i < j
        /\ provider_log[i].pass = provider_log[j].pass
        /\ ~provider_log[i].ok /\ provider_log[j].ok
    /\ \E i \in 1..Len(fixes) :
        /\ fixes[i].status = "failed"
        /\ fixes[i].fix_description.len = ApiLen(api_name) + 2 + DESC_TRUNC

Unwrapped(lines) ==
    LET fences == {i \in 1..Len(lines) : IsFence(lines[i])}
    IN  IF Cardinality(fences) < 2 THEN lines
        ELSE LET i == MinOf(fences)
             IN  SubSeq(lines, i + 1, MinOf(fences \ {i}) - 1)

\* the positions of the provider requests made by the step
NewRequestIdx == (Len(provider_log) + 1)..Len(provider_log')

\* C12 (as claimed): when the provider returns content for a file, fenced
\* or not, the dispatch pass leaves the unwrapped content in that file,
\* writes once per such file, marks every defect of the file that was
\* PENDING in the pass FIXED, and returns as errors_fixed the number of
\* defects it marked FIXED.
C12_WritesUnwrappedContent ==
    [][pc = "fix"
        => /\ \A k \in NewRequestIdx :
                provider_log'[k].ok =>
                  /\ tree'[provider_log'[k].file].lines
                        = Unwrapped(provider_log'[k].content)
                  /\ \A i \in 1..Len(fixes) :
                        (IsPending(fixes[i]) /\ fixes[i].file = provider_log'[k].file)
                        => fixes'[i].status = "fixed"
           /\ file_writes' = file_writes
                 + Cardinality({k \in NewRequestIdx : provider_log'[k].ok})
           /\ errors_fixed' = Cardinality({i \in 1..Len(fixes) :
                 IsPending(fixes[i]) /\ fixes'[i].status = "fixed"})]_vars

\* attempt k of the request e came back with an error whose text carries
\* one of the signals of S
FailedWith(e, k, S) ==
    k \in 1..e.calls /\ ~e.script[k].ok /\ e.script[k].signals \cap S # {}

\* every defect of the file of request e is FAILED
FileFailed(e) ==
    \A i \in 1..Len(fixes) : fixes[i].file = e.file => fixes[i].status = "failed"

\* every defect of the file of request e is FIXED
FileFixed(e) ==
    \A i \in 1..Len(fixes) : fixes[i].file = e.file => fixes[i].status = "fixed"

\* C13 (as claimed): an attempt that fails with an error carrying a quota
\* or an authentication signal is the last attempt of its request, no wait
\* follows it, and the file's defects are FAILED.
C13_QuotaAuthFailAtOnce ==
    \A n \in 1..Len(provider_log) :
        LET e == provider_log[n]
        IN  \A k \in 1..max_retries :
                FailedWith(e, k, {"quota", "auth"})
                => e.calls = k /\ Len(e.waits) = k - 1 /\ ~e.ok /\ FileFailed(e)

\* the same for errors that carry no rate-limit signal
C13_HoldsWithoutRateLimitSignal ==
    \A n \in 1..Len(provider_log) :
        LET e == provider_log[n]
        IN  \A k \in 1..max_retries :
                (FailedWith(e, k, {"quota", "auth"})
                    /\ "rate_limit" \notin e.script[k].signals)
                => e.calls = k /\ Len(e.waits) = k - 1 /\ ~e.ok /\ FileFailed(e)

\* the first k attempts of request e came back with a rate-limit error
RateLimitedUpTo(e, k) ==
    \A j \in 1..k : ~e.script[j].ok /\ "rate_limit" \in e.script[j].signals

\* attempt k of request e came back with a non-empty answer
Succeeds(e, k) == e.script[k].ok /\ ~e.script[k].content.empty

\* C14: when the attempts 1..k (k <= 4) of a request fail with a rate-limit
\* signal and attempt k + 1 returns content, the request makes k + 1 calls,
\* sleeps exactly the first k of 3, 6, 12, 24 seconds and returns that
\* content; when all five attempts are rate-limited it sleeps 3, 6, 12, 24
\* and the file's defects are FAILED.
C14_RateLimitBackoff ==
    \A n \in 1..Len(provider_log) :
        LET e == provider_log[n]
        IN  /\ \A k \in 0..(max_retries - 1) :
                  (RateLimitedUpTo(e, k) /\ Succeeds(e, k + 1))
                  => /\ e.ok /\ e.calls = k + 1
                     /\ e.waits = Take(<<3, 6, 12, 24>>, k)
                     /\ e.content = e.script[k + 1].content.lines
            /\ RateLimitedUpTo(e, max_retries)
                  => /\ ~e.ok /\ e.calls = max_retries
                     /\ e.waits = <<3, 6, 12, 24>>
                     /\ FileFailed(e)

\* C14 witness: four rate-limit errors, then content at the fifth attempt
C14_Witness ==
    \E n \in 1..Len(provider_log) :
        /\ RateLimitedUpTo(provider_log[n], 4) /\ Succeeds(provider_log[n], 5)
        /\ pc = "verify" /\ file_writes = 1

\* C15: a request makes between one and five provider calls and then
\* either has non-empty content or has raised, never both and never
\* neither; a pass makes one request per file.
C15_AtMostFiveCalls ==
    /\ \A n \in 1..Len(provider_log) :
          LET e == provider_log[n]
              r == call_ai_with_retry(e.script, api_name)
          IN  /\ e.calls \in 1..max_retries /\ r.calls = e.calls
              /\ r.raised # (~r.content.empty)
              /\ e.ok = ~r.raised
              /\ e.ok => Succeeds(e, e.calls)
    /\ \A m, n \in 1..Len(provider_log) :
          (provider_log[m].pass = provider_log[n].pass
              /\ provider_log[m].file = provider_log[n].file) => m = n

\* C15 witness: five attempts were made and the fifth one failed
C15_Witness ==
    \E n \in 1..Len(provider_log) :
        /\ provider_log[n].calls = max_retries /\ ~provider_log[n].ok
        /\ Len(provider_log[n].waits) = max_retries - 1

\* the defects matched in the tool output, before deduplication
Matched == ParseByLanguage(raw_test_output, repo_language)

MatchedTriples == {Triple(Matched[i]) : i \in 1..Len(Matched)}

\* the extraction pass has run
Extracted == pc \in {"fix", "verify"} /\ passes = 0

\* C16 (as claimed): two matched defects have the same id exactly when they
\* have the same (kind, file, line).
C16_IdInjective ==
    \A i, j \in 1..Len(Matched) :
        (Matched[i].id = Matched[j].id) <=> (Triple(Matched[i]) = Triple(Matched[j]))

\* equal triples always get equal ids
C16_IdIsFunctionOfTriple ==
    \A i, j \in 1..Len(Matched) :
        (Triple(Matched[i]) = Triple(Matched[j])) => (Matched[i].id = Matched[j].id)

\* the first match with the given triple
FirstWith(t) == Matched[MinOf({i \in 1..Len(Matched) : Triple(Matched[i]) = t})]

\* s is a subsequence of the matches, in their order
InDiscoveryOrder(fs) ==
    \A i, j \in 1..Len(fs) :
        i < j => MinOf({k \in 1..Len(Matched) : Triple(Matched[k]) = Triple(fs[i])})
                   < MinOf({k \in 1..Len(Matched) : Triple(Matched[k]) = Triple(fs[j])})

\* C17 (as claimed): after an extraction pass the defects hold exactly one
\* record for each matched (kind, file, line), that record is the first
\* match with the triple, and the records are in the order of discovery.
C17_OneRecordPerTriple ==
    Extracted =>
        /\ {Triple(fixes[i]) : i \in 1..Len(fixes)} = MatchedTriples
        /\ \A i, j \in 1..Len(fixes) :
              Triple(fixes[i]) = Triple(fixes[j]) => i = j
        /\ \A i \in 1..Len(fixes) : fixes[i] = FirstWith(Triple(fixes[i]))
        /\ InDiscoveryOrder(fixes)

\* no two matches with different triples share an id
NoIdCollision ==
    \A i, j \in 1..Len(Matched) :
        (Matched[i].id = Matched[j].id) => (Triple(Matched[i]) = Triple(Matched[j]))

\* the same when no two matched triples share an id
C17_HoldsWithoutIdCollision ==
    (Extracted /\ NoIdCollision) =>
        /\ {Triple(fixes[i]) : i \in 1..Len(fixes)} = MatchedTriples
        /\ \A i, j \in 1..Len(fixes) :
              Triple(fixes[i]) = Triple(fixes[j]) => i = j
        /\ \A i \in 1..Len(fixes) : fixes[i] = FirstWith(Triple(fixes[i]))
        /\ InDiscoveryOrder(fixes)

\* the flake8 diagnostics in the linter section of the tool output
LinterLines ==
    LET IsDiag(l) == l.fmt = "flake8"
    IN  SelectSeq(section(raw_test_output, "=FLAKE8=", "=MYPY="), IsDiag)

\* the extracted defects hold a record with the id, kind and line of the
\* defect a flake8 diagnostic stands for
Yields(l) ==
    \E i \in 1..Len(fixes) :
        /\ fixes[i].id = build_fix_id(Flake8Type(l), l.file, l.line)
        /\ fixes[i].type = Flake8Type(l) /\ fixes[i].line = l.line

\* C18 (as claimed): after an extraction pass for language python, every
\* flake8 diagnostic of the linter section has its defect, with the kind
\* looked up from its code; the diagnostic F401 on line 10 of a file has a
\* defect with kind IMPORT, that file and line 10.
C18_EveryDiagnosticYieldsDefect ==
    Extracted =>
        \A k \in 1..Len(LinterLines) :
            /\ Yields(LinterLines[k])
            /\ LinterLines[k].code = <<"F","4","0","1">>
                 => \E i \in 1..Len(fixes) :
                       /\ fixes[i].type = "IMPORT"
                       /\ fixes[i].file = LinterLines[k].file
                       /\ fixes[i].line = LinterLines[k].line

\* the same for the diagnostics whose code is E or W followed by digits
C18_HoldsForEWCodes ==
    Extracted =>
        \A k \in 1..Len(LinterLines) :
            MatchesFlake8(LinterLines[k]) => Yields(LinterLines[k])

\* the timeline events of the extraction passes: the one of analyze_errors
\* and those of the re-extractions of verify_fixes
IsExtractionEvent(ev) ==
    \/ ev.agent = "Analyze Agent"
    \/ ev.agent = "Verify Agent" /\ ev.msg.text # "already clean"

ExtractionPasses == Len(SelectSeq(timeline, IsExtractionEvent))

\* every dispatch pass so far was followed by a re-extraction, and each
\* re-extraction found exactly one PENDING defect: its list is one longer
\* than the list of the extraction before it, whose defects the pass in
\* between had all made terminal
EveryPassLeftOne ==
    LET ev == SelectSeq(timeline, IsExtractionEvent)
    IN  /\ passes > 0 /\ Len(ev) = passes + 1
        /\ \A k \in 2..Len(ev) : ev[k].msg.n = ev[k - 1].msg.n + 1

\* C19 (as claimed): a run in which every dispatch pass left exactly one
\* unresolved defect has, when it has ended, made exactly 6 extraction
\* passes and is abandoned with one defect remaining.
C19_SixExtractionPasses ==
    (pc = "END" /\ EveryPassLeftOne)
    => /\ ExtractionPasses = retry_limit + 1
       /\ Abandoned /\ PendingCount(last_analysis) = 1

\* C19 (amended): such a run has made exactly 6 dispatch passes (the first
\* and 5 retries) and 7 extraction passes (the initial one and the
\* re-extraction after each dispatch pass), retry_count is 5, and it is
\* abandoned with the one PENDING defect of the last re-extraction.
C19_SixDispatchPasses ==
    (pc = "END" /\ EveryPassLeftOne)
    => /\ passes = retry_limit + 1
       /\ ExtractionPasses = retry_limit + 2
       /\ retry_count = retry_limit
       /\ Abandoned /\ PendingCount(last_analysis) = 1

\* C19 witness: a run of that kind has ended
C19_Witness ==
    /\ pc = "END" /\ EveryPassLeftOne
    /\ \A i \in 1..Len(fixes) : fixes[i].status = "fixed"

\* the number of defects the first extraction pass found
OriginallyFound ==
    LET IsAnalyze(ev) == ev.agent = "Analyze Agent"
    IN  SelectSeq(timeline, IsAnalyze)[1].msg.n

FixedCount(fs) == Cardinality({i \in 1..Len(fs) : fs[i].status = "fixed"})

\* C20 (as claimed): when a run has ended with status "pushing", its
\* errors_found is the number of defects the first extraction pass found
\* and its errors_fixed is the number of FIXED defects in the history.
C20_CountersAreTotals ==
    (pc = "END" /\ status = "pushing")
    => /\ errors_found = OriginallyFound
       /\ errors_fixed = FixedCount(fixes)

\* C21: every step of a stage node (clone, test, analyze, fix, verify), on
\* every return path, makes the timeline exactly one event longer and
\* leaves the events that were there before as they were.
C21_EveryNodeAppendsOneEvent ==
    [][/\ Len(timeline') = Len(timeline) + 1
       /\ SubSeq(timeline', 1, Len(timeline)) = timeline]_vars

\* C24: once a node has returned status 'failed', no later node of the run
\* executes: no step is taken from a state whose status is 'failed', and a
\* run that ends after a failure ends with status 'failed'.
C24_NoNodeAfterFailed == [][status # "failed"]_vars

\* the first k attempts of request e came back with an error of no
\* recognised class
UnclassifiedUpTo(e, k) ==
    \A j \in 1..k : ~e.script[j].ok /\ e.script[j].signals = {}

\* the waits of a request whose first k attempts fail with an error of no
\* recognised class are the first k entries of schedule, and the fifth such
\* failure ends the request without a further wait
GenericWaitsAre(schedule) ==
    \A n \in 1..Len(provider_log) :
        LET e == provider_log[n]
        IN  /\ \A k \in 0..(max_retries - 1) :
                  (UnclassifiedUpTo(e, k) /\ Succeeds(e, k + 1))
                  => e.ok /\ e.calls = k + 1 /\ e.waits = Take(schedule, k)
            /\ UnclassifiedUpTo(e, max_retries)
                  => /\ ~e.ok /\ e.calls = max_retries
                     /\ e.waits = schedule
                     /\ FileFailed(e)

\* C27: for errors of no recognised class the request waits 1, 3, 5 and 9
\* seconds before the attempts 2 to 5, and the fifth consecutive failure is
\* a hard failure with no wait after it.
C27_GenericSchedule == GenericWaitsAre(<<1, 3, 5, 9>>)

\* what the code computes: (2 ** attempt) + 1 for attempt 0..3
C27_GenericScheduleAsCoded == GenericWaitsAre(<<2, 3, 5, 9>>)

\* C26: whenever a dispatch pass has written a file for a provider answer
\* and marked its defects FIXED, the file holds the answer with its fence
\* wrapping removed (and surrounding white space stripped), is not empty
\* and ends with a newline.
C26_WrittenContentIsSound ==
    \A n \in 1..Len(provider_log) :
        LET e == provider_log[n]
            written == tree[e.file].lines
        IN  (e.ok /\ FileFixed(e))
            => /\ written = Strip(Unwrapped(e.content))
               /\ written # <<>>
               /\ TrailingNewline(written)

\* the formats of the lines that report a diagnostic
DiagnosticFormats ==
    {"flake8", "mypy", "pytest", "node", "eslint", "jest", "tsc",
     "gobuild", "govet", "gotest", "gofmt"}

\* the diagnostic line l of the tool output is in the defect list, with the
\* kind the claim names for its section
YieldsDefect(l) ==
    \E k \in 1..Len(fixes) :
        /\ fixes[k].file \in {l.file, Basename(l.file)}
        /\ fixes[k].line = l.line
        /\ l.fmt = "node" => fixes[k].type = "SYNTAX"
        /\ l.fmt = "gofmt" => fixes[k].type = "INDENTATION"

\* C28: after the extraction pass, every diagnostic of every tool section
\* of the output of run_tests is a defect of the list; a syntax error of
\* the NODE_SYNTAX section is a SYNTAX defect and a file of the GOFMT
\* section is an INDENTATION defect.
C28_EverySectionYieldsDefects ==
    Extracted =>
        \A i \in 1..Len(raw_test_output) :
            raw_test_output[i].fmt \in DiagnosticFormats
            => YieldsDefect(raw_test_output[i])

\* the same for the sections other than NODE_SYNTAX and GOFMT
C28_HoldsForTheOtherSections ==
    Extracted =>
        \A i \in 1..Len(raw_test_output) :
            raw_test_output[i].fmt \in DiagnosticFormats \ {"node", "gofmt"}
            => YieldsDefect(raw_test_output[i])

\* the tags of the tool sections of an output
SectionTags(raw) == {raw[i].msg : i \in {j \in 1..Len(raw) : raw[j].fmt = "marker"}}

\* C29: a verification pass that re-runs the tools produces the same set of
\* tool sections as the initial run_tests pass of the run did.
C29_VerifyRunsTheSameSections ==
    [][(pc = "verify" /\ errors_found > 0)
        => SectionTags(VerifyFor(repo_language, tree, cloned))
               = SectionTags(raw_test_output)]_vars

\* the same for python repositories
C29_HoldsForPython ==
    [][(pc = "verify" /\ errors_found > 0 /\ repo_language = "python")
        => SectionTags(VerifyFor(repo_language, tree, cloned))
               = SectionTags(raw_test_output)]_vars

\* the automatic loop of the run ended in verify_fixes without a retry
\* (finalize or abandon), and execute_review_push has not changed the job
EndedInVerify ==
    /\ pc = "END" /\ review # "accepted"
    /\ timeline # <<>> /\ timeline[Len(timeline)].agent = "Verify Agent"

\* C23: a run whose loop ended in verify_fixes without a retry has status
\* "awaiting_review", and a call of execute_review_push for its job is not
\* rejected.
C23_EndedRunAwaitsReview ==
    EndedInVerify => (status = "awaiting_review" /\ review # "rejected")

\* the statuses at which the generator of /api/stream ends
TerminalStatuses == {"done", "failed"}

\* the generator polls again after every sleep, and the user asks for the
\* review of a run that has ended
FairService ==
    SpecService /\ WF_vars(stream_poll) /\ WF_vars(execute_review_push)

\* C25: a run whose graph has ended eventually has a job with a terminal
\* status, and the stream generator that polls the job eventually ends.
C25_RunAndStreamTerminate ==
    (pc = "END") ~> (status \in TerminalStatuses /\ ~stream.open)

\* C25 as a statement about states: once the graph of a run has ended and
\* a review has been asked for, the job has a terminal status.
C25_EndedRunIsTerminal ==
    (pc = "END" /\ review # "none") => status \in TerminalStatuses

\* file f has a defect with status FIXED
HasFixedDefect(f) ==
    \E i \in 1..Len(fixes) : fixes[i].file = f /\ fixes[i].status = "fixed"

\* C30: after execute_review_push has run push_to_branch with a list of
\* declined files, no declined file is among the files committed or
\* pushed, and every committed file has a FIXED defect.
C30_NoDeclinedFileIsPushed ==
    review = "accepted"
    => /\ committed \cap declined_files = {}
       /\ pushed \cap declined_files = {}
       /\ \A f \in committed : HasFixedDefect(f)

\* the part of C30 that does not depend on the declined files
C30_OnlyFixedFilesAreCommitted ==
    review = "accepted"
    => /\ pushed \subseteq committed
       /\ \A f \in committed : HasFixedDefect(f)

\* the job ids of the runs other than r
OtherJobs(r) == {runs[q].job_id : q \in Runs \ {r}} \ {NoJob}

\* a step of run r: the state of r changed
StepOf(r) == runs'[r] # runs[r]

\* C22: when two runs are in progress at once, a step of one run leaves
\* the registry entry, the working tree and the defect history of the
\* other run as they were, and writes no entry but its own.
C22_RunsDoNotInterfere ==
    [][\A r \in Runs : StepOf(r) =>
          /\ \A id \in (JobIds \ {runs'[r].job_id}) \cup OtherJobs(r) :
                jobs'[id] = jobs[id] /\ repos'[id] = repos[id]
          /\ \A q \in Runs \ {r} : runs'[q] = runs[q]]_vars

\* both runs are past their fix node, each with its own job id, and both
\* have patched the working tree
C22_BothRunsFixed ==
    /\ runs[1].job_id # runs[2].job_id
    /\ \A r \in Runs :
          /\ runs[r].passes >= 1
          /\ runs[r].errors_fixed >= 1
          /\ jobs[runs[r].job_id].fixes = runs[r].fixes

\* C31: without provider credentials the fix node returns status 'failed'
\* with errors_fixed = 0 and the run ends; no provider call is made, no
\* file is written and no defect changes (every PENDING defect stays
\* PENDING).
C31_NoCredentialsEndsTheRun ==
    [][(pc = "fix" /\ api_name = "None") =>
          /\ status' = "failed"
          /\ errors_fixed' = 0
          /\ pc' = "END"
          /\ fixes' = fixes
          /\ tree' = tree
          /\ provider_log' = provider_log
          /\ file_writes' = file_writes]_vars

\* a run without credentials has ended after its fix node, with a PENDING
\* defect of a source file and one of a test file in the history
C31_EndedWithoutCredentials ==
    /\ pc = "END"
    /\ api_name = "None"
    /\ passes = 1
    /\ status = "failed"
    /\ \E i \in 1..Len(fixes) : fixes[i].status = "pending" /\ fixes[i].file = FA
    /\ \E i \in 1..Len(fixes) : fixes[i].status = "pending" /\ fixes[i].file = FT

(***************************************************************************)
(* One dispatch pass over two files, each of which may be missing or       *)
(* unreadable: the run has found one diagnostic in s/a and one in s_a, and *)
(* the provider answers the call of a file five times the same way.        *)
(***************************************************************************)
FileStates == {"ok", "missing", "unreadable"}

\* s/a is grouped first, s_a second
MissingTrees ==
    {[f \in FileSet |->
        [state |-> IF f = FA THEN sa ELSE IF f = FB THEN sb ELSE "ok",
         lines |-> IF f = FA THEN Flake8Lines(FA, 1, 1)
                   ELSE IF f = FB THEN Flake8Lines(FB, 2, 1) ELSE <<>>]] :
     sa \in FileStates, sb \in FileStates}

InitMissing ==
    /\ tree \in MissingTrees
    /\ pc = "fix"
    /\ raw_test_output = RunTestsOutput(tree, TRUE)
    /\ repo_language = "python"
    /\ \E a \in {analyze_errors(RunTestsOutput(tree, TRUE), "python", <<>>)} :
          /\ status = a.status
          /\ fixes = a.fixes
          /\ errors_found = a.errors_found
          /\ timeline = <<Event("Clone Agent", [text |-> "Cloned", n |-> 0], 0, TRUE),
                          Event("Test Agent", [text |-> "Ran tests", n |-> 0], 0, TRUE),
                          Event(a.event.agent, a.event.msg, 0, a.event.passed)>>
    /\ errors_fixed = 0
    /\ retry_count = 0
    /\ verify_passed = FALSE
    /\ error_message = ""
    /\ api_name = "OpenAI"
    /\ cloned = TRUE
    /\ provider_log = <<>>
    /\ file_writes = 0
    /\ passes = 0
    /\ last_analysis = <<>>
    /\ InitService

MissingScripts == {Repeat(o) : o \in Outcomes}

MissingFix == FixWith(MissingScripts, MissingScripts, {<<>>})

SpecMissing == InitMissing /\ [][MissingFix]_vars

\* the files the pass groups: those with a PENDING defect that are not
\* test files
GroupedFiles == Range(FilesMapKeys(SkipTestFiles(fixes)))

\* the provider calls made for a file by the step
CallsFor(file) ==
    {k \in Len(provider_log) + 1 .. Len(provider_log') : provider_log'[k].file = file}

C32_UnreadableThenPatched ==
    /\ passes = 1
    /\ tree[FA].state = "unreadable"
    /\ \E i \in 1..Len(fixes) : fixes[i].file = FA /\ fixes[i].status = "failed"
    /\ \E i \in 1..Len(fixes) : fixes[i].file = FB /\ fixes[i].status = "fixed"

\* the provider answered call k of the entry with no content
EmptyAt(e, k) == e.script[k].ok /\ e.script[k].content.empty

\* C33: an empty response is retried like a failure without a recognised
\* signal: before the fifth attempt it is followed by the generic wait
\* (2 ** attempt) + 1 and by another call, and it fails the file only as
\* the fifth attempt.
C33_EmptyResponseIsRetried ==
    \A j \in 1..Len(provider_log) :
       LET e == provider_log[j]
       IN  \A k \in 1..e.calls :
              EmptyAt(e, k) =>
                 IF k < max_retries
                 THEN /\ e.calls > k
                      /\ e.waits[k] = Pow2(k - 1) + 1
                 ELSE /\ ~e.ok
                      /\ e.calls = max_retries

\* the first answer was empty, the second call brought a corrected file
C33_EmptyThenContent ==
    \E j \in 1..Len(provider_log) :
       LET e == provider_log[j]
       IN  /\ EmptyAt(e, 1)
           /\ e.calls = 2
           /\ e.ok
           /\ e.waits = <<2>>
           /\ \E i \in 1..Len(fixes) : fixes[i].file = e.file /\ fixes[i].status = "fixed"

\* five empty answers: the file is failed after the fifth call
C33_FiveEmptyAnswers ==
    \E j \in 1..Len(provider_log) :
       LET e == provider_log[j]
       IN  /\ \A k \in 1..max_retries : EmptyAt(e, k)
           /\ e.calls = max_retries
           /\ ~e.ok
           /\ \E i \in 1..Len(fixes) : fixes[i].file = e.file /\ fixes[i].status = "failed"

(***************************************************************************)
(* Runs on a repository with about fifty diagnostics: the extraction cuts  *)
(* its list at MAX_ERRORS, and a patched file may bring a batch of more    *)
(* than MAX_ERRORS new diagnostics into the next extraction.               *)
(***************************************************************************)
\* s/a has up to MAX_ERRORS + MaxOverCap diagnostics on distinct lines, and
\* maybe a second diagnostic on its first line; s_a has none or two
CapTrees ==
    {[f \in FileSet |->
        [state |-> "ok",
         lines |-> IF f = FA THEN Flake8Lines(FA, 1, dup) \o Flake8Lines(FA, 1, na)
                   ELSE IF f = FB THEN Flake8Lines(FB, 201, nb) ELSE <<>>]] :
     na \in (MAX_ERRORS - 2)..(MAX_ERRORS + MaxOverCap), dup \in 0..1, nb \in {0, 2}}

InitCap ==
    /\ pc = "analyze"
    /\ status = "analyzing"
    /\ tree \in CapTrees
    /\ raw_test_output = RunTestsOutput(tree, TRUE)
    /\ repo_language = detect_language
    /\ fixes = <<>>
    /\ errors_found = 0
    /\ errors_fixed = 0
    /\ retry_count = 0
    /\ verify_passed = FALSE
    /\ error_message = ""
    /\ timeline = <<Event("Clone Agent", [text |-> "Cloned", n |-> 0], 0, TRUE),
                    Event("Test Agent", [text |-> "Ran tests", n |-> 0], 0, TRUE)>>
    /\ api_name = "OpenAI"
    /\ cloned = TRUE
    /\ provider_log = <<>>
    /\ file_writes = 0
    /\ passes = 0
    /\ last_analysis = <<>>
    /\ InitService

\* a file body with more new defects than one pass takes
BatchContents(file) ==
    IF passes >= MaxBatchPass THEN {} ELSE
    {[empty |-> FALSE, lines |-> Flake8Lines(file, 101, MAX_ERRORS + MaxOverCap)]}

\* the provider answers with a clean file, with a batch of new defects, or
\* with a quota error
CapPlans(file) ==
    IF file \in Range(FilesMapKeys(SkipTestFiles(fixes)))
    THEN {Repeat(Response(c)) :
             c \in {[empty |-> FALSE, lines |-> <<>>]} \cup BatchContents(file)}
         \cup {Repeat(Failure({"quota"}, 60))}
    ELSE {<<>>}

CapFix == FixWith(CapPlans(FA), CapPlans(FB), {<<>>})

CapNext == AnalyzeNode \/ CapFix \/ VerifyNode

SpecCap == InitCap /\ [][CapNext]_vars

\* the PENDING defects of a list, in the order of the list
PendingOf(fs) == SelectSeq(fs, IsPending)

\* the positions of a parsed list that hold the first defect with their id
FirstFound(P) == {k \in 1..Len(P) : \A m \in 1..(k - 1) : P[m].id # P[k].id}

\* the first MAX_ERRORS of those positions
FirstFoundCapped(P) ==
    {k \in FirstFound(P) : Cardinality({m \in FirstFound(P) : m <= k}) <= 50}

\* what an extraction from the list P forwards, given the history hist: the
\* first 50 distinct defects of P that the terminal history does not hold
Forwarded(P, hist) ==
    LET known == {Fingerprint(hist[i]) : i \in {j \in 1..Len(hist) : IsTerminal(hist[j])}}
    IN  AtPositions(P, {k \in FirstFoundCapped(P) : Fingerprint(P[k]) \notin known})

\* C34, the extraction: the analyze node and the extraction of the verify
\* node forward at most 50 PENDING defects, the earliest found ones after
\* deduplication, in the order they were found.
C34_ExtractionStep ==
    /\ (pc = "analyze") =>
          PendingOf(fixes') =
             Forwarded(ParseByLanguage(raw_test_output, repo_language), fixes)
    /\ (pc = "verify" /\ pc' = "fix") =>
          PendingOf(fixes') =
             Forwarded(ParseByLanguage(VerifyFor(repo_language, tree, cloned),
                                       repo_language), fixes)
    /\ Len(PendingOf(fixes')) <= 50

\* C34: every extraction pass forwards at most 50 PENDING defects to
\* dispatch, in earliest-discovered order after deduplication, so no
\* dispatch pass works on more than 50 PENDING defects.
C34_AtMostFiftyForwarded == [][C34_ExtractionStep]_vars

\* a dispatch pass has worked on exactly 50 defects of a repository whose
\* tools reported more than 50 distinct ones
C34_CappedPass ==
    /\ passes = 1
    /\ Cardinality({raw_test_output[i] : i \in 1..Len(raw_test_output)}
                   \ {Marker("=FLAKE8="), Marker("=MYPY="), Marker("=PYTEST=")}) > 50
    /\ Len(fixes) = 50
    /\ \A i \in 1..Len(fixes) : fixes[i].status \in {"fixed", "failed"}

\* the extraction of the verify node has cut a batch of new defects
C34_CappedReextraction ==
    /\ pc = "fix"
    /\ passes = 1
    /\ Len(PendingOf(fixes)) = 50
    /\ Len(tree[FA].lines) > 50

\* C35: a dispatch pass with a configured provider leaves no defect
\* PENDING: every defect that was PENDING when the pass began is FIXED,
\* FAILED or SKIPPED when it ends, whatever the provider answers.
C35_PassLeavesNothingPending ==
    [][(pc = "fix" /\ api_name # "None") =>
          /\ Len(fixes') = Len(fixes)
          /\ \A i \in 1..Len(fixes) :
                fixes[i].status = "pending" =>
                   fixes'[i].status \in {"fixed", "failed", "skipped"}
          /\ \A i \in 1..Len(fixes') : fixes'[i].status # "pending"]_vars

\* one pass ended with a FIXED, a FAILED and a SKIPPED defect
C35_AllThreeOutcomes ==
    /\ passes = 1
    /\ api_name # "None"
    /\ \E i \in 1..Len(fixes) : fixes[i].status = "fixed"
    /\ \E i \in 1..Len(fixes) : fixes[i].status = "failed"
    /\ \E i \in 1..Len(fixes) : fixes[i].status = "skipped"

C36_TwoFailed ==
    /\ passes = 1
    /\ Cardinality({i \in 1..Len(fixes) :
                       fixes[i].file = FA /\ fixes[i].status = "failed"}) = 2

\* C37: no two defects of the fixes history have the same id, in any state
\* of a run, also after new defects were merged with the terminal history.
C37_IdsAreUniqueInHistory ==
    \A i, j \in 1..Len(fixes) : i # j => fixes[i].id # fixes[j].id

\* within the list of one extraction with an empty history the ids are
\* unique: deduplicate keeps one defect per id
C37_UniqueWithoutHistory ==
    [][(pc = "analyze" /\ fixes = <<>>) =>
          \A i, j \in 1..Len(fixes') : i # j => fixes'[i].id # fixes'[j].id]_vars

\* the defects of a list that were built from the diagnostic line l
DefectsOfLine(fs, l) ==
    {i \in 1..Len(fs) :
        fs[i].file = l.file /\ fs[i].line = l.line /\ fs[i].message = l.msg}

\* every ESLint line with a rule of the set rules gives at most one defect
\* in the list the analyze node returns; the rule <<>> stands for a line
\* without a rule
OneDefectPerEslintLine(rules) ==
    (pc = "analyze" /\ repo_language \in {"javascript", "typescript"}) =>
        \A k \in 1..Len(raw_test_output) :
            (raw_test_output[k].fmt = "eslint" /\ raw_test_output[k].code \in rules)
               => Cardinality(DefectsOfLine(fixes', raw_test_output[k])) <= 1

\* C38: one ESLint diagnostic line yields at most one defect in the
\* deduplicated defect list of a pass, whatever its rule.
C38_OneDefectPerEslintLine ==
    [][OneDefectPerEslintLine({RuleSemi, RuleIndent, RuleNoVar, <<>>})]_vars

\* the lines whose rule the first pattern classes the way the second
\* pattern classes the line (LINTING, or SYNTAX for a parsing error) yield
\* one defect each
C38_HoldsWhenBothPatternsAgree ==
    [][OneDefectPerEslintLine({RuleSemi, RuleNoVar, <<>>})]_vars

\* the branch of the except clause that slept after attempt k of a request
WaitClass(e, k) ==
    IF ~e.script[k].ok /\ "rate_limit" \in e.script[k].signals THEN "rate_limit"
    ELSE IF ~e.script[k].ok /\ "network" \in e.script[k].signals THEN "network"
    ELSE "generic"

\* C39, as claimed: within the retry sequence of one file every wait is
\* longer than the wait before it, however the failures interleave.
C39_WaitsStrictlyIncrease ==
    \A n \in 1..Len(provider_log) :
        LET e == provider_log[n]
        IN  \A k \in 1..(Len(e.waits) - 1) : e.waits[k] < e.waits[k + 1]

\* C39, amended: within the retry sequence of one file the waits of one
\* class of failure (rate limit, network, other) are strictly increasing
\* in the attempt number; a wait may be as long as or shorter than the
\* wait before it when the two failures are of different classes.
C39_WaitsIncreaseWithinAClass ==
    \A n \in 1..Len(provider_log) :
        LET e == provider_log[n]
        IN  \A k, m \in 1..Len(e.waits) :
               (k < m /\ WaitClass(e, k) = WaitClass(e, m))
                  => e.waits[k] < e.waits[m]

\* a request slept 3, 6, 5 and 16 seconds: rate limit, rate limit, an
\* error without a signal, a network error
C39_MixedClasses ==
    \E n \in 1..Len(provider_log) :
        LET e == provider_log[n]
        IN  /\ e.waits = <<3, 6, 5, 16>>
            /\ WaitClass(e, 1) = "rate_limit" /\ WaitClass(e, 2) = "rate_limit"
            /\ WaitClass(e, 3) = "generic" /\ WaitClass(e, 4) = "network"

\* C40: a dispatch pass keeps the list of defects as it is, entry for
\* entry, but for the status and the description of the defects that were
\* PENDING: it adds, removes and reorders nothing, changes no id, kind,
\* file, line or message, and leaves retry_count and errors_found alone
\* (retry_limit is a constant of the run).
C40_PassChangesStatusOnly ==
    [][pc = "fix" =>
          /\ Len(fixes') = Len(fixes)
          /\ \A i \in 1..Len(fixes) :
                /\ fixes'[i].id = fixes[i].id
                /\ fixes'[i].type = fixes[i].type
                /\ fixes'[i].file = fixes[i].file
                /\ fixes'[i].line = fixes[i].line
                /\ fixes'[i].message = fixes[i].message
                /\ fixes[i].status # "pending" => fixes'[i] = fixes[i]
                /\ fixes'[i].status = fixes[i].status
                      => fixes'[i].fix_description = fixes[i].fix_description
          /\ retry_count' = retry_count
          /\ errors_found' = errors_found]_vars

\* a later pass has marked its defects next to a history of FIXED, FAILED
\* and SKIPPED defects of the passes before
C40_PassOverHistory ==
    /\ passes = 2
    /\ pc # "fix"
    /\ retry_count = 1
    /\ \E i, j \in 1..Len(fixes) :
          /\ i < j
          /\ fixes[i].status = "skipped"
          /\ fixes[j].status = "fixed"
    /\ \E i \in 1..Len(fixes) : fixes[i].status = "failed"

====
